---- MODULE Spec2Model ----
(***************************************************************************)
(* A model of pyz80's machine-state pipeline (pyz80/machinestates.py):     *)
(* the micro-operations, the machine states OCF/OD/MR/MW/SR/SW/IO as the   *)
(* generators they are (one yield = one clock tick), MachineState.clock,   *)
(* the part of INSTRUCTION_STATES the properties below are about, and      *)
(* interrupt_response.                                                     *)
(*                                                                         *)
(* The register file, the memory bus and the CPU driver are not part of    *)
(* machinestates.py; they are modelled from the interface description:     *)
(* registers mask what is written to them to 8 or 16 bits, the memory bus  *)
(* is a RAM whose unwritten cells read 0, and the driver enqueues an OCF   *)
(* (or an interrupt response) when the pipeline is empty and clocks the    *)
(* head state once per tick.                                               *)
(*                                                                         *)
(* Conventions: None is the empty sequence << >> and Some(x) is <<x>> for  *)
(* optional parameters; an opcode is the sequence of its bytes (<<205>>    *)
(* for 0xCD, <<237, 176>> for the tuple (0xED, 0xB0)).                     *)
(***************************************************************************)
EXTENDS Integers, Sequences, FiniteSets, TLC

\* ------------------------------------------------------------------ bounds

\* Pipelines (instructions and interrupt responses) started in one run.
MaxInstr == 4
\* Interrupt requests the environment raises in one run.
MaxInterrupts == 1
\* Largest repeat count (initial BC) of a block instruction.
MaxCount == 3

\* ------------------------------------------------------- integer bit helpers

None == << >>
Some(x) == << x >>

RECURSIVE BitAndNat(_, _)
\* Python's x & y for x, y >= 0.
BitAndNat(x, y) ==
    IF x = 0 \/ y = 0 THEN 0
    ELSE ((x % 2) * (y % 2)) + 2 * BitAndNat(x \div 2, y \div 2)

RECURSIVE BitOrNat(_, _)
\* Python's x | y for x, y >= 0.
BitOrNat(x, y) ==
    IF x = 0 THEN y
    ELSE IF y = 0 THEN x
    ELSE (IF (x % 2) + (y % 2) > 0 THEN 1 ELSE 0) + 2 * BitOrNat(x \div 2, y \div 2)

RECURSIVE BitAndNotNat(_, _)
\* Python's x & ~y for x, y >= 0.
BitAndNotNat(x, y) ==
    IF x = 0 THEN 0
    ELSE IF y = 0 THEN x
    ELSE ((x % 2) * (1 - (y % 2))) + 2 * BitAndNotNat(x \div 2, y \div 2)

\* Python's x | y on unbounded two's complement integers: ~x = -x-1.
BitOr(x, y) ==
    IF x >= 0 /\ y >= 0 THEN BitOrNat(x, y)
    ELSE IF x < 0 /\ y < 0 THEN -BitAndNat(-x - 1, -y - 1) - 1
    ELSE IF x < 0 THEN -BitAndNotNat(-x - 1, y) - 1
    ELSE -BitAndNotNat(-y - 1, x) - 1

\* Python's x & y on unbounded two's complement integers.
BitAnd(x, y) ==
    IF x >= 0 /\ y >= 0 THEN BitAndNat(x, y)
    ELSE IF x < 0 /\ y < 0 THEN -BitOrNat(-x - 1, -y - 1) - 1
    ELSE IF x < 0 THEN BitAndNotNat(y, -x - 1)
    ELSE BitAndNotNat(x, -y - 1)

\* x << 8
Shl8(x) == x * 256

\* The two bytes the other way round: the first read is the high one.
low_after_high(x, y) == x + (y * 256)

high_after_low(x, y) == BitOr(Shl8(x), y)

\* ------------------------------------------------------------ register file

\* The 8-bit names that are the high, resp. low, half of a 16-bit register.
HighHalf == [A |-> "AF", B |-> "BC", D |-> "DE", H |-> "HL",
             IXH |-> "IX", IYH |-> "IY", SPH |-> "SP", PCH |-> "PC"]
LowHalf == [F |-> "AF", C |-> "BC", E |-> "DE", L |-> "HL",
            IXL |-> "IX", IYL |-> "IY", SPL |-> "SP", PCL |-> "PC"]
Wide == {"AF", "BC", "DE", "HL", "IX", "IY", "SP", "PC"}

\* getattr(cpu.reg, name)
getattr(r, name) ==
    IF name \in DOMAIN HighHalf THEN r[HighHalf[name]] \div 256
    ELSE IF name \in DOMAIN LowHalf THEN r[LowHalf[name]] % 256
    ELSE r[name]

\* setattr(cpu.reg, name, v): the value is masked to the register's width.
setattr(r, name, v) ==
    IF name \in DOMAIN HighHalf
    THEN [r EXCEPT ![HighHalf[name]] = ((v % 256) * 256) + (@ % 256)]
    ELSE IF name \in DOMAIN LowHalf
    THEN [r EXCEPT ![LowHalf[name]] = ((@ \div 256) * 256) + (v % 256)]
    ELSE IF name \in Wide THEN [r EXCEPT ![name] = v % 65536]
    ELSE [r EXCEPT ![name] = v % 256]

(* The shadow bank AF', BC', DE', HL' is held in the fields AF_, BC_, DE_, HL_. *)

\* reg.ex(): A, F change places with A', F'.
ex(r) == [r EXCEPT !.AF = r.AF_, !.AF_ = r.AF]

\* reg.exx(): BC, DE, HL change places with BC', DE', HL'.
exx(r) == [r EXCEPT !.BC = r.BC_, !.BC_ = r.BC, !.DE = r.DE_, !.DE_ = r.DE,
                    !.HL = r.HL_, !.HL_ = r.HL]

\* Bit number of each flag in F: S Z 5 H 3 P/V N C.
FlagBit == [S |-> 7, Z |-> 6, H |-> 4, P |-> 2, V |-> 2, N |-> 1, C |-> 0]
           @@ ("5" :> 5) @@ ("3" :> 3)

Pow2(n) == CASE n = 0 -> 1 [] n = 1 -> 2 [] n = 2 -> 4 [] n = 3 -> 8
             [] n = 4 -> 16 [] n = 5 -> 32 [] n = 6 -> 64 [] n = 7 -> 128

BitOf(x, n) == (x \div Pow2(n)) % 2

getflag(r, flag) == BitOf(getattr(r, "F"), FlagBit[flag])

setflag(r, flag) ==
    IF getflag(r, flag) = 1 THEN r
    ELSE setattr(r, "F", getattr(r, "F") + Pow2(FlagBit[flag]))

resetflag(r, flag) ==
    IF getflag(r, flag) = 0 THEN r
    ELSE setattr(r, "F", getattr(r, "F") - Pow2(FlagBit[flag]))

\* ---------------------------------------------------------------- the machine

(* The machine the micro-operations and machine states act on, as one record:
   reg        the register file
   membus     the RAM: a function from the addresses written so far
   iobus      the ports: a function from the ports (high * 256 + low) that hold
              a byte
   pipeline   the machine states of the instruction in flight, head first;
              each holds its own parameter bag, kwargs
   iff1, iff2, interrupt_mode   the CPU's interrupt state
   ds         what is left of the interrupt data source
   mri        cpu.most_recent_instruction
   err        the exception raised, "" for none
   errinst    the inst attribute of an UnrecognisedInstructionError raised
   buslog     every memory bus transaction so far, in order
   aborted    what each early_abort run in this tick popped off the pipeline *)

\* membus.read(address)
MemRead(m, a) == IF a \in DOMAIN m.membus THEN m.membus[a] ELSE 0

LogRead(m, a) ==
    [m EXCEPT !.buslog = Append(@, [op |-> "read", addr |-> a, val |-> MemRead(m, a)])]

\* membus.write(address, value)
MemWrite(m, a, v) ==
    [m EXCEPT !.membus = [x \in (DOMAIN @) \cup {a} |-> IF x = a THEN v ELSE @[x]],
              !.buslog = Append(@, [op |-> "write", addr |-> a, val |-> v])]

\* iobus.read(low, high)
IoRead(m, low, high) ==
    LET port == (high * 256) + low
        v == IF port \in DOMAIN m.iobus THEN m.iobus[port] ELSE 0
    IN [m EXCEPT !.buslog = Append(@, [op |-> "in", addr |-> port, val |-> v])]

\* iobus.write(low, high, value)
IoWrite(m, low, high, v) ==
    LET port == (high * 256) + low
    IN [m EXCEPT !.iobus = [x \in (DOMAIN @) \cup {port} |-> IF x = port THEN v ELSE @[x]],
                 !.buslog = Append(@, [op |-> "out", addr |-> port, val |-> v])]

\* The running state is the head of the pipeline; state.kwargs is its bag.
kwargs(m) == m.pipeline[1].kwargs

HasKey(m, k) == k \in DOMAIN kwargs(m)

\* state.kwargs[k] = v
SetKey(m, k, v) ==
    [m EXCEPT !.pipeline[1].kwargs =
        [x \in (DOMAIN @) \cup {k} |-> IF x = k THEN v ELSE @[x]]]

SetReg(m, name, v) == [m EXCEPT !.reg = setattr(@, name, v)]

Raise(m, what) == [m EXCEPT !.err = what]

\* The error that carries only the byte fetched last.
UnrecognisedByteError(m, inst) ==
    [m EXCEPT !.err = "UnrecognisedInstruction", !.errinst = << inst[Len(inst)] >>]

\* raise UnrecognisedInstructionError(inst): self.inst = inst
UnrecognisedInstructionError(m, inst) ==
    [m EXCEPT !.err = "UnrecognisedInstruction", !.errinst = inst]

\* ------------------------------------------------------------- value sources

(* What the code passes as a literal, a callable or None. *)
NoValue == [t |-> "none"]
Lit(v) == [t |-> "lit", v |-> v]
Fn(name) == [t |-> "fn", f |-> name, r |-> "", s |-> ""]
FnR(name, r) == [t |-> "fn", f |-> name, r |-> r, s |-> ""]
FnRS(name, r, s) == [t |-> "fn", f |-> name, r |-> r, s |-> s]

Bool01(b) == IF b THEN 1 ELSE 0

\* The vector address with bit 0 of the device's byte left in.
vector_address_unmasked(i, v) == BitOr(Shl8(i), v)

\* mode 2: lambda state,v: (state.cpu.reg.I << 8) | (v&0xFE)
vector_address(i, v) == BitOr(Shl8(i), BitAnd(v, 254))

(* An operand of a lambda of the table: a register, the literal 1, or "v",
   the argument the machine state passes. *)
Operand(x, m, a) ==
    IF x = "v" THEN a[1] ELSE IF x = "1" THEN 1 ELSE getattr(m.reg, x)

(* The callables of the table, applied to the state and the positional
   arguments a (a[1] is the operand the machine state passes). *)
Call(fn, m, a) ==
    CASE fn.f = "add_register" -> getattr(m.reg, fn.r) + a[1]
      \* 8-bit arithmetic on the operands r and s: the value, and the lambda
      \* of force_flag('H', ...), 1 if the low nibbles carry or borrow
      [] fn.f = "ADD" -> Operand(fn.r, m, a) + Operand(fn.s, m, a)
      [] fn.f = "ADC" ->
            Operand(fn.r, m, a) + Operand(fn.s, m, a) + getflag(m.reg, "C")
      [] fn.f = "SUB" -> Operand(fn.r, m, a) - Operand(fn.s, m, a)
      [] fn.f = "SBC" ->
            Operand(fn.r, m, a) - Operand(fn.s, m, a) - getflag(m.reg, "C")
      \* BIT: operand & (1 << n), n carried in fn.s
      [] fn.f = "BIT" -> BitAnd(Operand(fn.r, m, a), Pow2(fn.s))
      \* RES, SET: operand & (0xFF - (1 << n)), operand | (1 << n)
      [] fn.f = "RES" -> BitAnd(Operand(fn.r, m, a), 255 - Pow2(fn.s))
      [] fn.f = "SET" -> BitOr(Operand(fn.r, m, a), Pow2(fn.s))
      \* the rotates and shifts; bit 8 of the value is the carry out
      [] fn.f = "RLC" -> BitOr(Operand(fn.r, m, a) * 2, Operand(fn.r, m, a) \div 128)
      [] fn.f = "RL" -> BitOr(Operand(fn.r, m, a) * 2, getflag(m.reg, "C"))
      [] fn.f = "RRC" ->
            BitOr(BitOr(Operand(fn.r, m, a) \div 2, (Operand(fn.r, m, a) % 2) * 128),
                  (Operand(fn.r, m, a) % 2) * 256)
      [] fn.f = "RR" ->
            BitOr(BitOr(Operand(fn.r, m, a) \div 2, getflag(m.reg, "C") * 128),
                  (Operand(fn.r, m, a) % 2) * 256)
      [] fn.f = "SLA" -> Operand(fn.r, m, a) * 2
      [] fn.f = "SRA" ->
            BitOr(BitOr(Operand(fn.r, m, a) \div 2, BitAnd(Operand(fn.r, m, a), 128)),
                  (Operand(fn.r, m, a) % 2) * 256)
      [] fn.f = "SL1" -> BitOr(Operand(fn.r, m, a) * 2, 1)
      [] fn.f = "SRL" ->
            BitOr(Operand(fn.r, m, a) \div 2, (Operand(fn.r, m, a) % 2) * 256)
      [] fn.f = "ADD_H" ->
            Bool01((Operand(fn.r, m, a) % 16) + (Operand(fn.s, m, a) % 16) > 15)
      [] fn.f = "ADC_H" ->
            Bool01((Operand(fn.r, m, a) % 16) + (Operand(fn.s, m, a) % 16)
                   + getflag(m.reg, "C") > 15)
      [] fn.f = "SUB_H" ->
            Bool01((Operand(fn.r, m, a) % 16) - (Operand(fn.s, m, a) % 16) < 0)
      [] fn.f = "SBC_H" ->
            Bool01((Operand(fn.r, m, a) % 16) - (Operand(fn.s, m, a) % 16)
                   - getflag(m.reg, "C") < 0)
      [] fn.f = "subfrom" -> getattr(m.reg, fn.r) - a[1]
      \* DJNZ: lambda state,v: (state.cpu.reg.B-1)&0xFF
      [] fn.f = "B_minus_1" -> (getattr(m.reg, "B") - 1) % 256
      \* DJNZ: lambda state,v : (state.cpu.reg.B == 0x00)
      [] fn.f = "B_is_zero" -> Bool01(getattr(m.reg, "B") = 0)
      \* RRD: lambda state,v : (v >> 4) | (state.cpu.reg.A << 4), and
      \* lambda state,v : (v&0x0F); the parts of each | share no bit
      [] fn.f = "RRD_value" -> (a[1] \div 16) + (getattr(m.reg, "A") * 16)
      [] fn.f = "RRD_A" -> a[1] % 16
      \* RLD: lambda state,v : (v << 4) | (state.cpu.reg.A&0x0F), and
      \* lambda state,v : (v >> 4)
      [] fn.f = "RLD_value" -> (a[1] * 16) + (getattr(m.reg, "A") % 16)
      [] fn.f = "RLD_A" -> a[1] \div 16
      \* HALT: lambda state : not state.cpu.int
      [] fn.f = "not_int" -> Bool01(~m.int)
      \* LDIR: lambda state,_ : state.kwargs['value'] + state.cpu.reg.A
      [] fn.f = "value_plus_A" -> kwargs(m)["value"] + getattr(m.reg, "A")
      [] fn.f = "vector_address" -> vector_address(getattr(m.reg, "I"), a[1])
      \* ADD HL,rr: half carry out of bit 11, from the halves r (high), s (low)
      [] fn.f = "add16_H" ->
            Bool01((getattr(m.reg, fn.r) % 16) + (getattr(m.reg, "H") % 16)
                   + ((getattr(m.reg, fn.s) + getattr(m.reg, "L")) \div 256) > 15)
      [] fn.f = "add16_high" ->
            getattr(m.reg, fn.r) + getattr(m.reg, "H")
            + ((getattr(m.reg, fn.s) + getattr(m.reg, "L")) \div 256)
      [] fn.f = "add16_sum" ->
            (getattr(m.reg, "HL") + getattr(m.reg, fn.r)) % 65536

\* ------------------------------------------------------------ micro-operations

JP(value, key, source) == [op |-> "JP", value |-> value, key |-> key, source |-> source]
JR(value, key) == [op |-> "JR", value |-> value, key |-> key]
LDr(reg, value, key) == [op |-> "LDr", reg |-> reg, value |-> value, key |-> key]
LDrs(r, s) == [op |-> "LDrs", r |-> r, s |-> s]
RRr(n, reg, value) == [op |-> "RRr", n |-> n, reg |-> reg, value |-> value]
EX(a, b) == [op |-> "EX", a |-> a, b |-> b]
EXX == [op |-> "EXX"]
do_each(actions) == [op |-> "do_each", actions |-> actions]
inc(reg) == [op |-> "inc", reg |-> reg]
dec(reg) == [op |-> "dec", reg |-> reg]
inta == [op |-> "inta"]
on_zero(reg, action) == [op |-> "on_zero", reg |-> reg, action |-> action]
on_flag(flag, action) == [op |-> "on_flag", flag |-> flag, action |-> action]
unless_flag(flag, action) == [op |-> "unless_flag", flag |-> flag, action |-> action]
on_condition(condition, action) ==
    [op |-> "on_condition", condition |-> condition, action |-> action]
force_flag(flag, value) == [op |-> "force_flag", flag |-> flag, value |-> value]
clear_flag(flag) == [op |-> "clear_flag", flag |-> flag]
early_abort == [op |-> "early_abort"]
set_flags(flags, key, source, value, dest) ==
    [op |-> "set_flags", flags |-> flags, key |-> key, source |-> source,
     value |-> value, dest |-> dest]
di == [op |-> "di"]
ei == [op |-> "ei"]
im(mode) == [op |-> "im", m |-> mode]
restore_iff == [op |-> "restore_iff"]
daa == [op |-> "daa"]

\* JP._inner: where the target comes from, in the order the code tries.
JP_inner(m, a, args) ==
    IF a.value.t = "fn" THEN SetReg(m, "PC", Call(a.value, m, <<>>))
    ELSE IF a.value.t = "lit" THEN SetReg(m, "PC", a.value.v)
    ELSE IF a.source # None THEN SetReg(m, "PC", getattr(m.reg, a.source[1]))
    ELSE IF a.key # None
    THEN IF HasKey(m, a.key[1]) THEN SetReg(m, "PC", kwargs(m)[a.key[1]])
         ELSE Raise(m, "KeyError")
    ELSE IF Len(args) > 0 THEN SetReg(m, "PC", args[1])
    ELSE IF HasKey(m, "value") THEN SetReg(m, "PC", kwargs(m)["value"])
    ELSE Raise(m, "KeyError")

\* JR._inner: state.cpu.reg.PC += target
JR_inner(m, a, args) ==
    IF a.value.t = "fn"
    THEN SetReg(m, "PC", getattr(m.reg, "PC") + Call(a.value, m, <<>>))
    ELSE IF a.value.t = "lit" THEN SetReg(m, "PC", getattr(m.reg, "PC") + a.value.v)
    ELSE IF Len(args) > 0 THEN SetReg(m, "PC", getattr(m.reg, "PC") + args[1])
    ELSE IF HasKey(m, a.key) THEN SetReg(m, "PC", getattr(m.reg, "PC") + kwargs(m)[a.key])
    ELSE Raise(m, "KeyError")

LDr_inner(m, a, args) ==
    IF a.value.t = "fn" THEN SetReg(m, a.reg, Call(a.value, m, args))
    ELSE IF a.value.t = "lit" THEN SetReg(m, a.reg, a.value.v)
    ELSE IF Len(args) > 0 THEN SetReg(m, a.reg, args[1])
    ELSE IF HasKey(m, a.key) THEN SetReg(m, a.reg, kwargs(m)[a.key])
    ELSE Raise(m, "KeyError")

LDrs_inner(m, a) == SetReg(m, a.r, getattr(m.reg, a.s))

RRr_inner(m, a, args) ==
    IF a.reg # None THEN SetKey(m, a.n, getattr(m.reg, a.reg[1]))
    ELSE IF a.value.t = "fn" THEN SetKey(m, a.n, Call(a.value, m, args))
    ELSE IF a.value.t = "lit" THEN SetKey(m, a.n, a.value.v)
    ELSE IF Len(args) > 0 THEN SetKey(m, a.n, args[1])
    ELSE Raise(m, "Exception")

\* EX of a and b that writes a before it reads it for b.
EX_overwritten(m, a) ==
    IF a.a = None \/ a.b = None THEN [m EXCEPT !.reg = ex(@)]
    ELSE LET m1 == SetReg(m, a.a[1], getattr(m.reg, a.b[1]))
         IN SetReg(m1, a.b[1], getattr(m1.reg, a.a[1]))

\* EX._inner: reg.ex() without both names, else a and b change places via tmp
EX_inner(m, a) ==
    IF a.a = None \/ a.b = None THEN [m EXCEPT !.reg = ex(@)]
    ELSE LET tmp == getattr(m.reg, a.a[1])
         IN SetReg(SetReg(m, a.a[1], getattr(m.reg, a.b[1])), a.b[1], tmp)

EXX_inner(m) == [m EXCEPT !.reg = exx(@)]

\* A register whose name has an even length is 16 bits wide.
IsWideName(reg) == reg \in Wide

\* inc with the 8-bit mask applied to every register, whatever its width.
inc_narrow(m, a) == SetReg(m, a.reg, (getattr(m.reg, a.reg) + 1) % 256)

inc_inner(m, a) ==
    IF IsWideName(a.reg) THEN SetReg(m, a.reg, (getattr(m.reg, a.reg) + 1) % 65536)
    ELSE SetReg(m, a.reg, (getattr(m.reg, a.reg) + 1) % 256)

dec_inner(m, a) ==
    IF IsWideName(a.reg) THEN SetReg(m, a.reg, (65535 + getattr(m.reg, a.reg)) % 65536)
    ELSE SetReg(m, a.reg, (255 + getattr(m.reg, a.reg)) % 256)

\* inta: next(ds), whatever it yields or raises is dropped.
inta_inner(m) == [m EXCEPT !.ds = IF @ = << >> THEN @ ELSE Tail(@)]

force_flag_inner(m, a, args) ==
    LET v == IF a.value.t = "fn" THEN Call(a.value, m, args) ELSE a.value.v
    IN IF v = 0 THEN [m EXCEPT !.reg = resetflag(@, a.flag)]
       ELSE [m EXCEPT !.reg = setflag(@, a.flag)]

clear_flag_inner(m, a) == [m EXCEPT !.reg = resetflag(@, a.flag)]

\* early_abort that leaves the pipeline as it is.
early_abort_keep(m) == m

\* early_abort that pops one state off the end of the pipeline and no more.
early_abort_one(m) ==
    [m EXCEPT !.pipeline = IF Len(@) > 1 THEN SubSeq(@, 1, Len(@) - 1) ELSE @,
              !.aborted = Append(@, IF Len(m.pipeline) > 1
                                    THEN << m.pipeline[Len(m.pipeline)] >> ELSE << >>)]

(* early_abort: while len(state.pipeline) > 1: state.pipeline.pop()
   The states popped are noted in aborted. *)
early_abort_inner(m) ==
    [m EXCEPT !.pipeline = << @[1] >>, !.aborted = Append(@, Tail(m.pipeline))]

di_inner(m) == [m EXCEPT !.iff1 = 0, !.iff2 = 0]
\* ei that enables through IFF1 alone.
ei_first(m) == [m EXCEPT !.iff1 = 1]
ei_inner(m) == [m EXCEPT !.iff1 = 1, !.iff2 = 1]
im_inner(m, a) == [m EXCEPT !.interrupt_mode = a.m]
\* restore_iff that saves IFF1 to IFF2 instead.
restore_iff_saving(m) == [m EXCEPT !.iff2 = m.iff1]

restore_iff_inner(m) == [m EXCEPT !.iff1 = m.iff2]

\* daa that corrects a nibble from 9 on instead of from 10 on.
daa_from_nine(m) ==
    LET C == BitOf(getattr(m.reg, "F"), 0)
        H == BitOf(getattr(m.reg, "F"), 4)
        N == BitOf(getattr(m.reg, "F"), 1)
        Low(A) == IF A % 16 >= 9 \/ H # 0 THEN (IF N = 0 THEN A + 6 ELSE A - 6) ELSE A
        High(A) == IF A \div 16 >= 9 \/ C # 0
                   THEN [A |-> IF N = 0 THEN A + 96 ELSE A - 96, F |-> 1]
                   ELSE [A |-> A, F |-> 0]
        Final(A, F) == SetReg(SetReg(m, "A", A), "F",
                              F + (2 * N) + BitAnd(A, 168) + (64 * Bool01(A = 0)))
    IN CHOOSE done \in { Final(h.A % 256, h.F) : h \in { High(Low(getattr(m.reg, "A"))) } } : TRUE

(* daa._inner: with N = 0, A += 0x06 if the low nibble is above 9 or H is set,
   then A += 0x60 and F = 1 if A >> 4 is above 9 or C is set (with N = 1 the
   same with -=); A &= 0xFF; F |= N << 1; F |= A & 0xA8; F |= 0x40 if A is 0.
   F starts from 0, so the bits or-ed in are summed. *)
daa_inner(m) ==
    LET C == BitOf(getattr(m.reg, "F"), 0)
        H == BitOf(getattr(m.reg, "F"), 4)
        N == BitOf(getattr(m.reg, "F"), 1)
        Low(A) == IF A % 16 > 9 \/ H # 0 THEN (IF N = 0 THEN A + 6 ELSE A - 6) ELSE A
        High(A) == IF A \div 16 > 9 \/ C # 0
                   THEN [A |-> IF N = 0 THEN A + 96 ELSE A - 96, F |-> 1]
                   ELSE [A |-> A, F |-> 0]
        Final(A, F) == SetReg(SetReg(m, "A", A), "F",
                              F + (2 * N) + BitAnd(A, 168) + (64 * Bool01(A = 0)))
    IN CHOOSE done \in { Final(h.A % 256, h.F) : h \in { High(Low(getattr(m.reg, "A"))) } } : TRUE

\* A step of the parity loop that shifts and leaves the low bit out.
ParityStep_shift(p) == p \div 2

\* (p & 1) ^ (p >> 1), the step of set_flags' parity loop.
ParityStep(p) ==
    LET lo == p % 2
        hi == p \div 2
    IN IF lo = 0 THEN hi ELSE IF hi % 2 = 0 THEN hi + 1 ELSE hi - 1

RECURSIVE ParityLoop(_)
\* p = d; while p > 1: p = (p&0x1) ^ (p >> 1)
ParityLoop(p) == IF p > 1 THEN ParityLoop(ParityStep(p)) ELSE p

(* The flag computation of set_flags on the raw value D.  Every step of the
   code writes one bit of F and reads no other, so the steps are given here
   bit by bit: first the value the template letter computes (the old bit when
   the letter is absent), then the closing loop, for n in range(0,7), which
   forces bit n to 1 or 0 where flags[7-n] is '1' or '0'. *)
FlagsOf(r, flags, D, iff2) ==
    LET d == D % 256
        F == getattr(r, "F")
        S == IF flags[1] = "S" THEN BitOf(d, 7) ELSE BitOf(F, 7)
        Z == IF flags[2] = "Z" THEN Bool01(d = 0) ELSE BitOf(F, 6)
        Y == IF flags[3] = "5" THEN BitOf(d, 5) ELSE BitOf(F, 5)
        X == IF flags[5] = "3" THEN BitOf(d, 3) ELSE BitOf(F, 3)
        P == IF flags[6] = "*" THEN Bool01(iff2 = 1)
             ELSE IF flags[6] = "V" THEN Bool01(D > 127 \/ D < -128)
             ELSE IF flags[6] = "P" THEN Bool01(ParityLoop(d) = 0)
             ELSE BitOf(F, 2)
        C == IF flags[8] = "C" THEN Bool01(D > 255 \/ D < 0) ELSE BitOf(F, 0)
        Forced(n, bit) == IF n <= 6 /\ flags[(7 - n) + 1] = "1" THEN 1
                          ELSE IF n <= 6 /\ flags[(7 - n) + 1] = "0" THEN 0
                          ELSE bit
    IN setattr(r, "F",
               Forced(0, C) + 2 * Forced(1, BitOf(F, 1)) + 4 * Forced(2, P)
               + 8 * Forced(3, X) + 16 * Forced(4, BitOf(F, 4)) + 32 * Forced(5, Y)
               + 64 * Forced(6, Z) + 128 * Forced(7, S))

set_flags_inner(m, a, args) ==
    LET known == \/ a.value.t # "none"
                 \/ a.source # None
                 \/ Len(args) > 0
                 \/ (a.key # None /\ HasKey(m, a.key[1]))
        value == IF a.value.t = "fn" THEN Call(a.value, m, args)
                 ELSE IF a.value.t = "lit" THEN a.value.v
                 ELSE IF a.source # None THEN getattr(m.reg, a.source[1])
                 ELSE IF Len(args) > 0 THEN args[1]
                 ELSE kwargs(m)[a.key[1]]
        \* the flags, then state.kwargs[key] = d, then setattr(reg, dest, d)
        Flagged(D) == [m EXCEPT !.reg = FlagsOf(@, a.flags, D, m.iff2)]
        Keyed(m1, D) == IF a.key # None THEN SetKey(m1, a.key[1], D % 256) ELSE m1
        Stored(m2, D) == IF a.dest # None THEN SetReg(m2, a.dest[1], D % 256) ELSE m2
    IN IF ~known THEN Raise(m, "KeyError")
       ELSE CHOOSE done \in { Stored(Keyed(Flagged(D), D), D) : D \in { value } } : TRUE

RECURSIVE Act(_, _, _)
(* action(state, *args): one micro-operation applied to the machine whose
   pipeline head is the running state.  An exception ends the action. *)
Act(a, m, args) ==
    IF m.err # "" THEN m
    ELSE CASE a.op = "JP" -> JP_inner(m, a, args)
           [] a.op = "JR" -> JR_inner(m, a, args)
           [] a.op = "LDr" -> LDr_inner(m, a, args)
           [] a.op = "LDrs" -> LDrs_inner(m, a)
           [] a.op = "RRr" -> RRr_inner(m, a, args)
           [] a.op = "EX" -> EX_inner(m, a)
           [] a.op = "EXX" -> EXX_inner(m)
           [] a.op = "inc" -> inc_inner(m, a)
           [] a.op = "dec" -> dec_inner(m, a)
           [] a.op = "inta" -> inta_inner(m)
           [] a.op = "force_flag" -> force_flag_inner(m, a, args)
           [] a.op = "clear_flag" -> clear_flag_inner(m, a)
           [] a.op = "early_abort" -> early_abort_inner(m)
           [] a.op = "set_flags" -> set_flags_inner(m, a, args)
           [] a.op = "di" -> di_inner(m)
           [] a.op = "ei" -> ei_inner(m)
           [] a.op = "im" -> im_inner(m, a)
           [] a.op = "restore_iff" -> restore_iff_inner(m)
           [] a.op = "daa" -> daa_inner(m)
           [] a.op = "on_zero" ->
                IF getattr(m.reg, a.reg) = 0 THEN Act(a.action, m, args) ELSE m
           [] a.op = "on_flag" ->
                IF getflag(m.reg, a.flag) = 1 THEN Act(a.action, m, args) ELSE m
           [] a.op = "unless_flag" ->
                IF getflag(m.reg, a.flag) = 0 THEN Act(a.action, m, args) ELSE m
           [] a.op = "on_condition" ->
                IF Call(a.condition, m, args) # 0 THEN Act(a.action, m, args) ELSE m
           [] a.op = "do_each" ->
                \* for action in actions: action(state, *args)
                IF a.actions = << >> THEN m
                ELSE CHOOSE done \in { Act(do_each(Tail(a.actions)), m1, args) :
                                         m1 \in { Act(Head(a.actions), m, args) } } : TRUE

\* An optional action (None or Some(action)) applied.
ActOpt(action, m, args) == IF action = None THEN m ELSE Act(action[1], m, args)

\* --------------------------------------------------------------- machine states

(* A machine state is its constructor's parameters, the position of its
   generator (pos: the yields passed so far), whether it was given the
   interrupt data source (ds), its parameter bag and the locals the
   generator keeps across yields (PC, inst, D, address, val). *)
NoKwargs == << >>

OCF(prefix, extra) ==
    [kind |-> "OCF", pos |-> 0, ds |-> FALSE, kwargs |-> NoKwargs,
     prefix |-> prefix, extra |-> extra, PC |-> 0, inst |-> << >>]

OD(compound, action, key, signed) ==
    [kind |-> "OD", pos |-> 0, ds |-> FALSE, kwargs |-> NoKwargs,
     compound |-> compound, action |-> action, key |-> key, signed |-> signed,
     PC |-> 0, D |-> 0]

MR(address, indirect, compound, action, incaddr) ==
    [kind |-> "MR", pos |-> 0, ds |-> FALSE, kwargs |-> NoKwargs,
     address |-> address, indirect |-> indirect, compound |-> compound,
     action |-> action, incaddr |-> incaddr, D |-> 0]

MW(address, indirect, value, source, action, extra) ==
    [kind |-> "MW", pos |-> 0, ds |-> FALSE, kwargs |-> NoKwargs,
     address |-> address, indirect |-> indirect, value |-> value,
     source |-> source, action |-> action, extra |-> extra]

SR(compound, action, extra) ==
    [kind |-> "SR", pos |-> 0, ds |-> FALSE, kwargs |-> NoKwargs,
     compound |-> compound, action |-> action, extra |-> extra,
     address |-> 0, D |-> 0]

SW(source, key, extra, action) ==
    [kind |-> "SW", pos |-> 0, ds |-> FALSE, kwargs |-> NoKwargs,
     source |-> source, key |-> key, extra |-> extra, action |-> action,
     address |-> 0]

IO(ticks, locked, transform, action, key) ==
    [kind |-> "IO", pos |-> 0, ds |-> FALSE, kwargs |-> NoKwargs,
     ticks |-> ticks, locked |-> locked, transform |-> transform,
     action |-> action, key |-> key]

PR(high, low, action, dest) ==
    [kind |-> "PR", pos |-> 0, ds |-> FALSE, kwargs |-> NoKwargs,
     high |-> high, low |-> low, action |-> action, dest |-> dest,
     lowv |-> 0, highv |-> 0, D |-> 0]

PW(high, low, action, source) ==
    [kind |-> "PW", pos |-> 0, ds |-> FALSE, kwargs |-> NoKwargs,
     high |-> high, low |-> low, action |-> action, source |-> source,
     lowv |-> 0, highv |-> 0, D |-> 0]

\* The defaults of the constructors.
HAL == Some("high_after_low")
OD0 == OD(HAL, None, "value", FALSE)
ODa(action) == OD(HAL, Some(action), "value", FALSE)
ODk(key) == OD(HAL, None, key, FALSE)
SR0 == SR(HAL, None, 0)
SRa(action) == SR(HAL, Some(action), 0)
SWs(source) == SW(Some(source), "value", 0, None)
SWsa(source, action) == SW(Some(source), "value", 0, Some(action))
NoTransform == [t |-> "none"]
DictTransform(d) == [t |-> "dict", d |-> d]

\* set_data_source that forgets the data source.
set_data_source_lost(s, has) == s

\* state().setcpu(cpu).set_data_source(data_source)
set_data_source(s, has) == [s EXCEPT !.ds = has]

\* What a generator's step reports: it yielded, or it returned.
Yielded(m) == [m |-> [m EXCEPT !.pipeline[1].pos = @ + 1], done |-> FALSE]
Returned(m) == [m |-> m, done |-> TRUE]
\* An exception leaves the generator where it was; the caller sees m.err.
Raised(m, what) == [m |-> Raise(m, what), done |-> FALSE]
AfterAction(m) == IF m.err # "" THEN [m |-> m, done |-> FALSE] ELSE Returned(m)

\* next(self.data_source), 0x00 once it is exhausted
NextByte(m) == IF m.ds = << >> THEN 0 ELSE Head(m.ds)
Consume(m) == [m EXCEPT !.ds = IF @ = << >> THEN @ ELSE Tail(@)]

\* ------------------------------------------------------------ INSTRUCTION_STATES

(* A table entry: (extra OCF ticks, end-of-OCF actions, follow-on states,
   byte length).  The part of the table modelled here: NOP, LD r,n, LD rr,nn,
   DJNZ, JR and JR cc, ADD HL,rr, RET and RET cc, POP, JP and JP cc, CALL and
   CALL cc, PUSH, RST, DI, EI, the prefixes DD, ED, FD, PUSH/POP IX/IY, RETN,
   RETI, LDIR and CPIR. *)
Entry(extra, actions, states, length) ==
    [extra |-> extra, actions |-> actions, states |-> states, length |-> length]

\* The flag a condition code (bits 5..3 of the opcode) tests: NZ Z NC C PO PE P M.
CondFlag(cc) == << "Z", "Z", "C", "C", "P", "P", "S", "S" >>[cc + 1]

\* on_flag(f, action) for NZ, NC, PO, P and unless_flag(f, action) for Z, C, PE, M:
\* the action is taken when the condition does NOT hold.
WhenNot(cc, action) ==
    IF cc % 2 = 0 THEN on_flag(CondFlag(cc), action)
    ELSE unless_flag(CondFlag(cc), action)

\* unless_flag(f, action) for NZ, ... and on_flag(f, action) for Z, ...:
\* the action is taken when the condition holds.
When(cc, action) ==
    IF cc % 2 = 0 THEN unless_flag(CondFlag(cc), action)
    ELSE on_flag(CondFlag(cc), action)

\* BIT that also stores the masked value in the register.
BIT_stored(n, reg) ==
    set_flags(<< "S", "Z", "5", "1", "3", "P", "0", "-" >>, Some("value"), None,
              FnRS("BIT", IF reg = None THEN "v" ELSE reg[1], n), reg)

\* BIT(n, reg): set_flags("SZ513P0-", value=lambda: operand & (1 << n))
BIT(n, reg) ==
    set_flags(<< "S", "Z", "5", "1", "3", "P", "0", "-" >>, Some("value"), None,
              FnRS("BIT", IF reg = None THEN "v" ELSE reg[1], n), None)

(* RLC, RL, RRC, RR, SLA, SRA, SL1, SRL (name): set_flags("--503-0C", ...) on
   the register reg, stored back in it, or on the operand passed, stored
   under key. *)
ROT(name, reg, key) ==
    IF reg # None
    THEN set_flags(<< "-", "-", "5", "0", "3", "-", "0", "C" >>, Some("value"), None,
                   FnR(name, reg[1]), reg)
    ELSE set_flags(<< "-", "-", "5", "0", "3", "-", "0", "C" >>, Some(key), None,
                   FnR(name, "v"), None)

RES(n, reg, key) ==
    IF reg # None THEN LDr(reg[1], FnRS("RES", reg[1], n), "value")
    ELSE RRr(key, None, FnRS("RES", "v", n))

SET(n, reg, key) ==
    IF reg # None THEN LDr(reg[1], FnRS("SET", reg[1], n), "value")
    ELSE RRr(key, None, FnRS("SET", "v", n))

JPv == JP(NoValue, None, None)
JRv == JR(NoValue, "value")
LDrv(reg) == LDr(reg, NoValue, "value")
RRrv(n) == RRr(n, None, NoValue)

\* The lambda of force_flag('H', ...) that goes with each operation.
HalfCarry == [ADD |-> "ADD_H", ADC |-> "ADC_H", SUB |-> "SUB_H", SBC |-> "SBC_H"]

(* 0x80..0x9F: ADD, ADC, SUB, SBC A,r and, for r = "", A,(HL); the table
   writes the flag template "SZ5-3V0C" for ADD A,B and "SZ5H3V.C" elsewhere. *)
ARITH(op, r) ==
    LET flags == << "S", "Z", "5", IF op = "ADD" /\ r = "B" THEN "-" ELSE "H", "3", "V",
                    IF op \in {"ADD", "ADC"} THEN "0" ELSE "1", "C" >>
    IN IF r # ""
       THEN Entry(0, << force_flag("H", FnRS(HalfCarry[op], "A", r)),
                        set_flags(flags, Some("value"), None, FnRS(op, "A", r), None),
                        LDrv("A") >>, << >>, 1)
       ELSE Entry(0, << >>,
                  << MR(None, Some("HL"), HAL,
                        Some(do_each(<< force_flag("H", FnRS(HalfCarry[op], "A", "v")),
                                        set_flags(flags, Some("value"), None,
                                                  FnRS(op, "A", "v"), Some("A")) >>)),
                        TRUE) >>, 1)

\* 0xB8..0xBF: CP r and, for r = "", CP (HL): set_flags alone
CP(r) ==
    LET flags == << "S", "Z", "5", "H", "3", "V", "1", "C" >>
    IN IF r # ""
       THEN Entry(0, << set_flags(flags, Some("value"), None, FnRS("SUB", "A", r), None) >>,
                  << >>, 1)
       ELSE Entry(0, << >>,
                  << MR(None, Some("HL"), HAL,
                        Some(set_flags(flags, Some("value"), None,
                                       FnRS("SUB", "A", "v"), None)), TRUE) >>, 1)

(* 0x04, 0x0C, ..., 0x3C INC r (op = "ADD") and 0x05, 0x0D, ..., 0x3D DEC r
   (op = "SUB"); r = "" is INC (HL), DEC (HL).  The table writes "SZ5-3V1-"
   for DEC B and "SZ5H3V1-" for the other DECs. *)
INC_DEC(op, r) ==
    LET flags == << "S", "Z", "5", IF op = "ADD" \/ r = "B" THEN "-" ELSE "H", "3", "V",
                    IF op = "ADD" THEN "0" ELSE "1", "-" >>
    IN IF r # ""
       THEN Entry(0, << force_flag("H", FnRS(HalfCarry[op], r, "1")),
                        set_flags(flags, Some("value"), None, FnRS(op, r, "1"), None),
                        LDrv(r) >>, << >>, 1)
       ELSE Entry(0, << >>,
                  << MR(None, Some("HL"), HAL,
                        Some(do_each(<< force_flag("H", FnRS(HalfCarry[op], "v", "1")),
                                        set_flags(flags, Some("value"), None,
                                                  FnRS(op, "v", "1"), None) >>)),
                        TRUE),
                     MW(None, Some("HL"), NoValue, None, None, 0) >>, 1)

\* 0x00
NOP == Entry(0, << >>, << >>, 1)
\* HALT that steps PC back whatever the interrupt latch holds.
HALT_unlatched == Entry(0, << dec("PC") >>, << >>, 1)

\* 0x76: PC is stepped back onto the HALT while no interrupt is pending
HALT == Entry(0, << on_condition(Fn("not_int"), dec("PC")) >>, << >>, 1)
\* 0x27: the table gives DAA the length 2
DAA == Entry(0, << daa >>, << >>, 2)
\* 0x08 EX AF,AF' (a = b = None), 0xEB EX DE,HL, 0xD9 EXX
EX_a_b(a, b) == Entry(0, << EX(a, b) >>, << >>, 1)
EXX_all == Entry(0, << EXX >>, << >>, 1)
\* 0x06, 0x0E, 0x16, 0x1E, 0x26, 0x2E, 0x3E
LD_r_n(r) == Entry(0, << >>, << ODa(LDrv(r)) >>, 2)
\* 0x01, 0x11, 0x21, 0x31
LD_rr_nn(rr) == Entry(0, << >>, << OD0, ODa(LDrv(rr)) >>, 3)
\* 0x10
DJNZ ==
    Entry(1, << >>,
          << OD(HAL, Some(do_each(<< LDr("B", Fn("B_minus_1"), "value"),
                                     on_condition(Fn("B_is_zero"), early_abort),
                                     RRrv("value") >>)), "value", TRUE),
             IO(5, TRUE, NoTransform, Some(JRv), "value") >>, 2)
\* 0x18
JR_n ==
    Entry(0, << >>, << OD(HAL, None, "value", TRUE),
                       IO(5, TRUE, NoTransform, Some(JRv), "value") >>, 2)
\* 0x20, 0x28, 0x30, 0x38 (cc = 0..3)
JR_cc(cc) ==
    Entry(0, << >>,
          << OD(HAL, Some(do_each(<< RRrv("value"), WhenNot(cc, early_abort) >>)),
                "value", TRUE),
             IO(5, TRUE, NoTransform, Some(JRv), "value") >>, 2)
\* 0x09, 0x19, 0x29, 0x39: rr with its halves hi, lo
ADD_HL_rr(rr, hi, lo) ==
    Entry(0, << force_flag("H", FnRS("add16_H", hi, lo)),
                set_flags(<< "-", "-", "5", "-", "3", "-", "0", "C" >>, Some("value"),
                          None, FnRS("add16_high", hi, lo), None),
                LDr("HL", FnR("add16_sum", rr), "value") >>,
          << IO(4, TRUE, NoTransform, None, "value"),
             IO(3, TRUE, NoTransform, None, "value") >>, 1)
\* 0xC0, 0xC8, ..., 0xF8
RET_cc(cc) == Entry(1, << WhenNot(cc, early_abort) >>, << SR0, SRa(JPv) >>, 1)
\* RET whose jump looks for a key nothing has stored.
RET_unkeyed == Entry(0, << >>, << SR0, SRa(JP(NoValue, Some("target"), None)) >>, 1)
\* 0xC9
RET == Entry(0, << >>, << SR0, SRa(JPv) >>, 1)
\* 0xC1, 0xD1, 0xE1, 0xF1 and (0xDD, 0xE1), (0xFD, 0xE1)
POP(rr, length) == Entry(0, << >>, << SR0, SRa(LDrv(rr)) >>, length)
\* PUSH that stacks the low half first.
PUSH_low_first(hi, lo, length) == Entry(1, << >>, << SWs(lo), SWs(hi) >>, length)

\* 0xC5, 0xD5, 0xE5, 0xF5 and (0xDD, 0xE5), (0xFD, 0xE5)
PUSH(hi, lo, length) == Entry(1, << >>, << SWs(hi), SWs(lo) >>, length)
\* 0xE3
EX_SP_HL ==
    Entry(0, << RRr("H", Some("H"), NoValue), RRr("L", Some("L"), NoValue) >>,
          << SR0, SR(HAL, Some(LDrv("HL")), 1),
             SW(None, "H", 0, None), SW(None, "L", 2, None) >>, 1)
\* LD (nn),rr whose operand bytes go under 'value', not 'address'.
LD_mem_rr_unkeyed(lo, hi, length) ==
    Entry(0, << >>,
          << OD0, OD0,
             MW(None, None, NoValue, Some(lo), None, 0),
             MW(None, None, NoValue, Some(hi), None, 0) >>, length)

(* LD (nn),rr, rr with its halves lo and hi: 0x22 HL, (0xDD, 0x22) IX,
   (0xFD, 0x22) IY, (0xED, 0x43) BC, (0xED, 0x53) DE, (0xED, 0x73) SP; the
   table gives the length 3 to the first, 2 to the last and 4 to the others. *)
LD_mem_rr(lo, hi, length) ==
    Entry(0, << >>,
          << ODk("address"), ODk("address"),
             MW(None, None, NoValue, Some(lo), None, 0),
             MW(None, None, NoValue, Some(hi), None, 0) >>, length)
(* LD rr,(nn): 0x2A HL, (0xDD, 0x2A) IX, (0xFD, 0x2A) IY, (0xED, 0x4B) BC,
   (0xED, 0x5B) DE, (0xED, 0x7B) SP; length 3 for the first, 4 for the others. *)
LD_rr_mem(lo, hi, length) ==
    Entry(0, << >>,
          << ODk("address"), ODk("address"),
             MR(None, None, HAL, Some(LDrv(lo)), TRUE),
             MR(None, None, HAL, Some(LDrv(hi)), TRUE) >>, length)
\* 0x32
LD_mem_A ==
    Entry(0, << >>, << ODk("address"), ODk("address"),
                       MW(None, None, NoValue, Some("A"), None, 0) >>, 3)
\* 0x3A
LD_A_mem ==
    Entry(0, << >>, << ODk("address"), ODk("address"),
                       MR(None, None, HAL, Some(LDrv("A")), TRUE) >>, 3)
(* (0xDD, x) with rr = IX and (0xFD, x) with rr = IY on the byte at rr + d: the
   displacement, signed, under 'address'; when the entry has one, the operand
   n under 'value'; five ticks in which rr is added to the address; then the
   states that read or write there. *)
INDEXED(rr, operand, after, length) ==
    Entry(0, << >>,
          << OD(HAL, None, "address", TRUE) >>
          \o (IF operand THEN << OD0 >> ELSE << >>)
          \o << IO(5, TRUE, DictTransform([address |-> FnR("add_register", rr)]),
                   None, "value") >>
          \o after, length)
\* 0xD3
OUT_n_A == Entry(0, << >>, << ODk("address"), PW(Some("A"), None, None, Some("A")) >>, 2)
\* 0xDB
IN_A_n == Entry(0, << >>, << OD0, PR(Some("A"), None, None, Some("A")) >>, 2)
\* (0xED, 0x40), (0xED, 0x48), ..., (0xED, 0x78): r = B C D E H L F A
IN_r_C(r) ==
    Entry(0, << >>,
          << PR(Some("B"), Some("C"),
                Some(set_flags(<< "S", "Z", "5", "0", "3", "P", "0", "-" >>,
                               Some("value"), None, NoValue, None)),
                Some(r)) >>, 2)
\* (0xED, 0x41), (0xED, 0x49), ..., (0xED, 0x79): r = B C D E H L F A
OUT_C_r(r) == Entry(0, << >>, << PW(Some("B"), Some("C"), None, Some(r)) >>, 2)
\* 0xC2, 0xCA, ..., 0xFA
JP_cc_nn(cc) == Entry(0, << >>, << OD0, ODa(When(cc, JPv)) >>, 3)
\* 0xC3
JP_nn == Entry(0, << >>, << OD0, ODa(JPv) >>, 3)
\* CALL cc,nn that abandons the call when the condition holds.
CALL_cc_nn_inverted(cc) ==
    Entry(0, << >>,
          << OD0, ODa(do_each(<< RRrv("target"), When(cc, early_abort) >>)),
             SWs("PCH"), SWsa("PCL", JP(NoValue, Some("target"), None)) >>, 3)
\* 0xC4, 0xCC, ..., 0xFC
CALL_cc_nn(cc) ==
    Entry(0, << >>,
          << OD0, ODa(do_each(<< RRrv("target"), WhenNot(cc, early_abort) >>)),
             SWs("PCH"), SWsa("PCL", JP(NoValue, Some("target"), None)) >>, 3)
\* 0xCD
CALL_nn ==
    Entry(0, << >>,
          << OD0, ODa(RRrv("target")),
             SWs("PCH"), SWsa("PCL", JP(NoValue, Some("target"), None)) >>, 3)
\* 0xC7, 0xCF, ..., 0xFF: p = 0x00, 0x08, ..., 0x38
RST(p) == Entry(1, << >>, << SWs("PCH"), SWsa("PCL", JP(Lit(p), None, None)) >>, 1)
\* 0xF3, 0xFB
DI == Entry(0, << di >>, << >>, 1)
EI == Entry(0, << ei >>, << >>, 1)
\* (0xCB, 0x40..0x7F): BIT n,r and, for r = "", BIT n,(HL)
BIT_n_r(n, r) ==
    IF r # "" THEN Entry(0, << BIT(n, Some(r)) >>, << >>, 2)
    ELSE Entry(0, << >>, << MR(None, Some("HL"), HAL, Some(BIT(n, None)), TRUE) >>, 2)
\* The prefix byte queues an OCF that does not carry it.
PREFIX_dropped(byte) == Entry(0, << >>, << OCF(<< >>, 0) >>, 0)

\* 0xCB, 0xDD, 0xED, 0xFD: the prefix byte queues an OCF that carries it
PREFIX(byte) == Entry(0, << >>, << OCF(<< byte >>, 0) >>, 0)
\* The index prefix that takes the displacement as an unsigned byte.
INDEX_CB_unsigned(p, rr, length) ==
    Entry(0, << >>,
          << OD(HAL, None, "address", FALSE),
             IO(1, TRUE, DictTransform([address |-> FnR("add_register", rr)]), None, "value"),
             OCF(<< p, 203 >>, 0) >>, length)

(* (0xDD, 0xCB) with rr = IX, (0xFD, 0xCB) with rr = IY: the displacement,
   the address rr + d, and an OCF carrying both prefix bytes.  The entry of
   (0xDD, 0xCB) has no length, that of (0xFD, 0xCB) the length 0. *)
INDEX_CB(p, rr, length) ==
    Entry(0, << >>,
          << OD(HAL, None, "address", TRUE),
             IO(1, TRUE, DictTransform([address |-> FnR("add_register", rr)]), None, "value"),
             OCF(<< p, 203 >>, 0) >>, length)

(* (0xDD, 0xCB, x) and (0xFD, 0xCB, x) for x = 0x06, 0x0E, ..., 0xFE: the
   rotates and shifts, BIT n, RES n and SET n on the byte at kwargs['address']. *)
INDEX_CB_op(x) ==
    LET n == (x \div 8) % 8
        name == << "RLC", "RRC", "RL", "RR", "SLA", "SRA", "SL1", "SRL" >>[n + 1]
        action == IF x < 64 THEN ROT(name, None, "value")
                  ELSE IF x < 192 THEN RES(n, None, "value")
                  ELSE SET(n, None, "value")
    IN IF x \in 64..127
       THEN Entry(0, << >>, << MR(None, None, HAL, Some(BIT(n, None)), TRUE) >>, 4)
       ELSE Entry(0, << >>, << MR(None, None, HAL, Some(action), FALSE),
                               MW(None, None, NoValue, None, None, 0) >>, 4)

(* (0xED, 0x67) RRD with value = "RRD_value" and a = "RRD_A", (0xED, 0x6F)
   RLD with "RLD_value" and "RLD_A": the byte at (HL) is read, the new byte
   put in the bag and A set, and the byte in the bag written. *)
RRD_RLD(value, a) ==
    Entry(0, << >>,
          << MR(None, Some("HL"), HAL,
                Some(do_each(<< RRr("value", None, Fn(value)),
                                set_flags(<< "S", "Z", "5", "0", "3", "P", "0", "-" >>,
                                          None, None, Fn(a), Some("A")) >>)),
                TRUE),
             IO(4, TRUE, NoTransform, None, "value"),
             MW(None, Some("HL"), NoValue, None, None, 0) >>, 2)

\* (0xED, 0x45), (0xED, 0x4D)
RETN == Entry(0, << >>, << SR0, SRa(do_each(<< restore_iff, JPv >>)) >>, 2)
RETI == Entry(0, << >>, << SR0, SRa(JPv) >>, 2)
\* (0xED, 0xB0)
LDIR ==
    Entry(0, << >>,
          << MR(None, Some("HL"), HAL, None, TRUE),
             MW(None, Some("DE"), NoValue, None,
                Some(do_each(<< set_flags(<< "-", "-", "5", "0", "3", "1", "0", "-" >>,
                                          Some("value"), None, Fn("value_plus_A"), None),
                                inc("HL"), inc("DE"), dec("BC"),
                                on_zero("BC", clear_flag("V")),
                                on_zero("BC", early_abort) >>)), 2),
             IO(5, TRUE, NoTransform, Some(do_each(<< dec("PC"), dec("PC") >>)), "value") >>,
          2)
\* (0xED, 0xB1)
CPIR ==
    Entry(0, << >>,
          << MR(None, Some("HL"), HAL, None, TRUE),
             IO(5, TRUE, DictTransform([value |-> FnR("subfrom", "A")]),
                Some(do_each(<< set_flags(<< "-", "Z", "5", "0", "3", "1", "1", "-" >>,
                                          Some("value"), None, NoValue, None),
                                inc("HL"), dec("BC"),
                                on_zero("BC", clear_flag("V")),
                                on_zero("BC", early_abort),
                                on_flag("Z", early_abort) >>)), "value"),
             IO(5, TRUE, NoTransform, Some(do_each(<< dec("PC"), dec("PC") >>)), "value") >>,
          2)
\* (0xED, 0xB8)
LDDR ==
    Entry(0, << >>,
          << MR(None, Some("HL"), HAL, None, TRUE),
             MW(None, Some("DE"), NoValue, None,
                Some(do_each(<< set_flags(<< "-", "-", "5", "0", "3", "1", "0", "-" >>,
                                          Some("value"), None, Fn("value_plus_A"), None),
                                dec("HL"), dec("DE"), dec("BC"),
                                on_zero("BC", clear_flag("V")),
                                on_zero("BC", early_abort) >>)), 2),
             IO(5, TRUE, NoTransform, Some(do_each(<< dec("PC"), dec("PC") >>)), "value") >>,
          2)
\* CPDR whose last state steps PC back by one.
CPDR_short_rewind ==
    Entry(0, << >>,
          << MR(None, Some("HL"), HAL, None, TRUE),
             IO(5, TRUE, DictTransform([value |-> FnR("subfrom", "A")]),
                Some(do_each(<< set_flags(<< "-", "Z", "5", "0", "3", "1", "1", "-" >>,
                                          Some("value"), None, NoValue, None),
                                dec("HL"), dec("BC"),
                                on_zero("BC", clear_flag("V")),
                                on_zero("BC", early_abort),
                                on_flag("Z", early_abort) >>)), "value"),
             IO(5, TRUE, NoTransform, Some(dec("PC")), "value") >>,
          2)
\* (0xED, 0xB9)
CPDR ==
    Entry(0, << >>,
          << MR(None, Some("HL"), HAL, None, TRUE),
             IO(5, TRUE, DictTransform([value |-> FnR("subfrom", "A")]),
                Some(do_each(<< set_flags(<< "-", "Z", "5", "0", "3", "1", "1", "-" >>,
                                          Some("value"), None, NoValue, None),
                                dec("HL"), dec("BC"),
                                on_zero("BC", clear_flag("V")),
                                on_zero("BC", early_abort),
                                on_flag("Z", early_abort) >>)), "value"),
             IO(5, TRUE, NoTransform, Some(do_each(<< dec("PC"), dec("PC") >>)), "value") >>,
          2)
\* What the port block instructions do after each byte; step is inc("HL")
\* or dec("HL").
PortBlockAction(step) ==
    do_each(<< step, dec("B"),
               set_flags(<< "S", "Z", "5", "0", "3", "P", "0", "-" >>,
                         Some("value"), Some("B"), NoValue, None),
               on_flag("Z", early_abort) >>)
\* (0xED, 0xB2) INIR with step = inc("HL"), (0xED, 0xBA) INDR with dec("HL")
INxR(step) ==
    Entry(0, << >>,
          << PR(Some("B"), Some("C"), None, None),
             MW(None, Some("HL"), NoValue, None, Some(PortBlockAction(step)), 0),
             IO(5, TRUE, NoTransform, Some(do_each(<< dec("PC"), dec("PC") >>)), "value") >>,
          2)
\* (0xED, 0xB3) OUTIR with step = inc("HL"), (0xED, 0xBB) OUTDR with dec("HL")
OUTxR(step) ==
    Entry(0, << >>,
          << MR(None, Some("HL"), HAL, None, TRUE),
             PW(Some("B"), Some("C"), Some(PortBlockAction(step)), None),
             IO(5, TRUE, NoTransform, Some(do_each(<< dec("PC"), dec("PC") >>)), "value") >>,
          2)

\* The names of the halves of IX and IY.
LowHalfOf(rr) == IF rr = "IX" THEN "IXL" ELSE "IYL"
HighHalfOf(rr) == IF rr = "IX" THEN "IXH" ELSE "IYH"

Reg8 == << "B", "C", "D", "E", "H", "L", "", "A" >>
Reg16 == << "BC", "DE", "HL", "SP" >>
Reg16Hi == << "B", "D", "H", "SPH" >>
Reg16Lo == << "C", "E", "L", "SPL" >>
Stk16 == << "BC", "DE", "HL", "AF" >>
Stk16Hi == << "B", "D", "H", "A" >>
Stk16Lo == << "C", "E", "L", "F" >>
Port8 == << "B", "C", "D", "E", "H", "L", "F", "A" >>

\* The one-byte opcodes modelled.
OneByte ==
    {0, 16, 24, 32, 40, 48, 56, 195, 201, 205, 243, 251, 203, 221, 237, 253}
    \cup {8, 217, 235, 39, 211, 219, 227, 34, 42, 50, 58, 118}
    \cup (128..159) \cup (184..191)
    \cup {4 + 8 * i : i \in 0..7} \cup {5 + 8 * i : i \in 0..7}
    \cup {6 + 8 * i : i \in {0, 1, 2, 3, 4, 5, 7}}
    \cup {1 + 16 * i : i \in 0..3} \cup {9 + 16 * i : i \in 0..3}
    \cup {192 + 8 * i : i \in 0..7} \cup {193 + 16 * i : i \in 0..3}
    \cup {194 + 8 * i : i \in 0..7} \cup {196 + 8 * i : i \in 0..7}
    \cup {197 + 16 * i : i \in 0..3} \cup {199 + 8 * i : i \in 0..7}

\* The second bytes INSTRUCTION_STATES has an entry for after the prefix 0xED.
EDSecond ==
    (64..75) \cup {77, 79} \cup (80..83) \cup (86..91) \cup {94, 95} \cup (96..98)
    \cup (103..106) \cup {111} \cup (112..115) \cup (120..123)
    \cup (160..163) \cup (168..171) \cup (176..179) \cup (184..187)

(* The second bytes after 0xDD and 0xFD whose entries work on the byte at
   IX + d, IY + d and are modelled: INC, DEC, LD (IX+d),n, LD r,(IX+d),
   LD (IX+d),r, ADD, ADC, SUB, SBC and CP. *)
IndexedSecond ==
    {52, 53, 54, 70, 78, 86, 94, 102, 110, 126, 134, 142, 150, 158, 190}
    \cup ((112..119) \ {118})

\* The prefixed opcodes modelled.
TwoByte ==
    { << 221, 225 >>, << 221, 229 >>, << 253, 225 >>, << 253, 229 >>,
      << 237, 69 >>, << 237, 77 >>, << 237, 176 >>, << 237, 177 >> }
    \cup { << 203, x >> : x \in 64..127 }
    \cup { << 221, 203 >>, << 253, 203 >> }
    \cup { << 237, 64 + (8 * i) + j >> : i \in 0..7, j \in 0..1 }
    \cup { << 237, x >> : x \in {67, 75, 83, 91, 115, 123, 103, 111} }
    \cup { << 237, x >> : x \in {178, 179, 184, 185, 186, 187} }
    \cup { << p, x >> : p \in {221, 253}, x \in IndexedSecond \cup {34, 42} }

\* The third bytes INSTRUCTION_STATES has an entry for after (0xDD, 0xCB) and
\* after (0xFD, 0xCB).
IndexCBThird == { 6 + (8 * k) : k \in 0..31 }

Modelled(inst) ==
    \/ Len(inst) = 1 /\ inst[1] \in OneByte
    \/ Len(inst) = 2 /\ inst \in TwoByte
    \/ Len(inst) = 3

\* The second bytes INSTRUCTION_STATES has an entry for after 0xDD and after 0xFD.
IndexSecond ==
    {9, 25, 57, 70, 78, 86, 94, 102, 110, 119, 126, 134, 142, 150, 158, 166, 174,
     182, 190, 203, 225, 227, 229, 233, 249}
    \cup (33..35) \cup (41..43) \cup (52..54) \cup (112..117)

(* instruction in INSTRUCTION_STATES: every single byte has an entry, and so
   has every byte after 0xCB. *)
InTable(inst) ==
    \/ Len(inst) = 1
    \/ Len(inst) = 3 /\ inst[1] \in {221, 253} /\ inst[2] = 203 /\ inst[3] \in IndexCBThird
    \/ Len(inst) = 2 /\ inst[1] = 203
    \/ Len(inst) = 2 /\ inst[1] = 237 /\ inst[2] \in EDSecond
    \/ Len(inst) = 2 /\ inst[1] \in {221, 253} /\ inst[2] \in IndexSecond

INSTRUCTION_STATES(inst) ==
    IF Len(inst) = 1 THEN
        LET b == inst[1]
            y == (b \div 8) % 8
            q == (b \div 16) % 4
        IN CASE b = 0 -> NOP
             [] b = 8 -> EX_a_b(None, None)
             [] b = 39 -> DAA
             [] b = 118 -> HALT
             [] b < 64 /\ b % 8 = 4 -> INC_DEC("ADD", Reg8[y + 1])
             [] b < 64 /\ b % 8 = 5 -> INC_DEC("SUB", Reg8[y + 1])
             [] b \in 128..159 ->
                    ARITH(<< "ADD", "ADC", "SUB", "SBC" >>[y + 1], Reg8[(b % 8) + 1])
             [] b \in 184..191 -> CP(Reg8[(b % 8) + 1])
             [] b = 217 -> EXX_all
             [] b = 235 -> EX_a_b(Some("DE"), Some("HL"))
             [] b = 16 -> DJNZ
             [] b = 24 -> JR_n
             [] b \in {32, 40, 48, 56} -> JR_cc(y - 4)
             [] b < 64 /\ b % 8 = 6 -> LD_r_n(Reg8[y + 1])
             [] b < 64 /\ b % 16 = 1 -> LD_rr_nn(Reg16[q + 1])
             [] b < 64 /\ b % 16 = 9 -> ADD_HL_rr(Reg16[q + 1], Reg16Hi[q + 1], Reg16Lo[q + 1])
             [] b = 34 -> LD_mem_rr("L", "H", 3)
             [] b = 42 -> LD_rr_mem("L", "H", 3)
             [] b = 50 -> LD_mem_A
             [] b = 58 -> LD_A_mem
             [] b = 195 -> JP_nn
             [] b = 201 -> RET
             [] b = 205 -> CALL_nn
             [] b = 211 -> OUT_n_A
             [] b = 219 -> IN_A_n
             [] b = 227 -> EX_SP_HL
             [] b = 243 -> DI
             [] b = 251 -> EI
             [] b \in {203, 221, 237, 253} -> PREFIX(b)
             [] b >= 192 /\ b % 8 = 0 -> RET_cc(y)
             [] b >= 192 /\ b % 16 = 1 -> POP(Stk16[q + 1], 1)
             [] b >= 192 /\ b % 8 = 2 -> JP_cc_nn(y)
             [] b >= 192 /\ b % 8 = 4 -> CALL_cc_nn(y)
             [] b >= 192 /\ b % 16 = 5 -> PUSH(Stk16Hi[q + 1], Stk16Lo[q + 1], 1)
             [] b >= 192 /\ b % 8 = 7 -> RST(8 * y)
    ELSE CASE Len(inst) = 3 -> INDEX_CB_op(inst[3])
           [] inst = << 221, 203 >> -> INDEX_CB(221, "IX", None)
           [] inst = << 253, 203 >> -> INDEX_CB(253, "IY", 0)
           [] inst[1] = 203 ->
                BIT_n_r((inst[2] \div 8) % 8, Reg8[(inst[2] % 8) + 1])
           [] inst = << 221, 225 >> -> POP("IX", 2)
           [] inst = << 221, 229 >> -> PUSH("IXH", "IXL", 2)
           [] inst = << 253, 225 >> -> POP("IY", 2)
           [] inst = << 253, 229 >> -> PUSH("IYH", "IYL", 2)
           [] inst[1] \in {221, 253} /\ inst[2] \in IndexedSecond \cup {34, 42} ->
               (LET rr == IF inst[1] = 221 THEN "IX" ELSE "IY"
                    x == inst[2]
                    r == Reg8[((x \div 8) % 8) + 1]
                    op == << "ADD", "ADC", "SUB", "SBC" >>[((x \div 8) % 4) + 1]
                    \* the state of the (HL) entry, its address left to the bag
                    Bag(state) == [state EXCEPT !.indirect = None]
                    write == MW(None, None, NoValue, None, None, 0)
                IN CASE x = 34 -> LD_mem_rr(LowHalfOf(rr), HighHalfOf(rr), 4)
                     [] x = 42 -> LD_rr_mem(LowHalfOf(rr), HighHalfOf(rr), 4)
                     [] x = 52 ->
                          INDEXED(rr, FALSE,
                                  << [Bag(INC_DEC("ADD", "").states[1])
                                         EXCEPT !.incaddr = FALSE], write >>, 3)
                     [] x = 53 ->
                          INDEXED(rr, FALSE,
                                  << [Bag(INC_DEC("SUB", "").states[1])
                                         EXCEPT !.incaddr = FALSE], write >>, 3)
                     [] x = 54 -> INDEXED(rr, TRUE, << write >>,
                                          IF inst[1] = 221 THEN 3 ELSE 4)
                     [] x \in 64..127 /\ x % 8 = 6 ->
                          INDEXED(rr, FALSE, << MR(None, None, HAL, Some(LDrv(r)), TRUE) >>,
                                  IF inst = << 221, 70 >> THEN None ELSE 3)
                     [] x \in 112..119 ->
                          INDEXED(rr, FALSE,
                                  << MW(None, None, NoValue, Some(Reg8[(x % 8) + 1]),
                                        None, 0) >>,
                                  IF inst = << 221, 115 >> THEN None ELSE 3)
                     [] x \in 128..159 ->
                          INDEXED(rr, FALSE, << Bag(ARITH(op, "").states[1]) >>, 3)
                     [] x = 190 -> INDEXED(rr, FALSE, << Bag(CP("").states[1]) >>, 3))
           [] inst = << 237, 67 >> -> LD_mem_rr("C", "B", 4)
           [] inst = << 237, 83 >> -> LD_mem_rr("E", "D", 4)
           [] inst = << 237, 115 >> -> LD_mem_rr("SPL", "SPH", 2)
           [] inst = << 237, 75 >> -> LD_rr_mem("C", "B", 4)
           [] inst = << 237, 91 >> -> LD_rr_mem("E", "D", 4)
           [] inst = << 237, 123 >> -> LD_rr_mem("SPL", "SPH", 4)
           [] inst = << 237, 103 >> -> RRD_RLD("RRD_value", "RRD_A")
           [] inst = << 237, 111 >> -> RRD_RLD("RLD_value", "RLD_A")
           [] inst = << 237, 69 >> -> RETN
           [] inst = << 237, 77 >> -> RETI
           [] inst = << 237, 176 >> -> LDIR
           [] inst = << 237, 177 >> -> CPIR
           [] inst = << 237, 178 >> -> INxR(inc("HL"))
           [] inst = << 237, 179 >> -> OUTxR(inc("HL"))
           [] inst = << 237, 184 >> -> LDDR
           [] inst = << 237, 185 >> -> CPDR
           [] inst = << 237, 186 >> -> INxR(dec("HL"))
           [] inst = << 237, 187 >> -> OUTxR(dec("HL"))
           [] inst[1] = 237 /\ inst[2] \in 64..121 /\ inst[2] % 8 = 0 ->
                IN_r_C(Port8[((inst[2] - 64) \div 8) + 1])
           [] inst[1] = 237 /\ inst[2] \in 64..121 /\ inst[2] % 8 = 1 ->
                OUT_C_r(Port8[((inst[2] - 64) \div 8) + 1])

(* decode_instruction, for an instruction in INSTRUCTION_STATES: the entry.
   For one that is not, OCF_run raises UnrecognisedInstructionError(inst) in
   its place. *)
decode_instruction(inst) == INSTRUCTION_STATES(inst)

\* ------------------------------------------------------------- the disassembler

(* INSTRUCTION_STATES[inst][3:], what disassemble_instructions unpacks into
   (code, length): the mnemonic, for which the opcode it belongs to stands
   here, and the length; six entries of the table have a mnemonic and no
   length. *)
MnemonicAndLength(inst) ==
    LET b == inst[Len(inst)]
        length ==
            IF Len(inst) = 1
            THEN IF b \in {203, 221, 237, 253} THEN 0
                 ELSE IF b \in {1, 17, 33, 34, 42, 49, 50, 58, 195, 205}
                            \cup {194 + (8 * i) : i \in 0..7}
                            \cup {196 + (8 * i) : i \in 0..7} THEN 3
                 ELSE IF b \in {6, 14, 16, 22, 24, 30, 32, 38, 39, 40, 48, 54, 56, 62,
                                198, 206, 211, 214, 219, 222, 230, 238, 246, 254} THEN 2
                 ELSE 1
            ELSE IF Len(inst) = 3 THEN 4
            ELSE IF inst[1] = 203 THEN 2
            ELSE IF inst[1] = 237 THEN (IF b \in {67, 75, 83, 91, 123} THEN 4 ELSE 2)
            ELSE IF b = 203 THEN 0
            ELSE IF b \in {33, 34, 42} \/ (b = 54 /\ inst[1] = 253) THEN 4
            ELSE IF b \in {9, 25, 35, 41, 43, 57, 225, 227, 229, 233, 249} THEN 2
            ELSE 3
    IN IF inst \in { << 46 >>, << 150 >>, << 221, 70 >>, << 221, 115 >>, << 221, 203 >>,
                     << 221, 227 >> }
       THEN << inst >>
       ELSE << inst, length >>

(* One pass of the loop of disassemble_instructions over the bytes left:
   the (code, length) appended to ret, or the exception raised.  code is
   "???" or a mnemonic, the one of the opcode op.  The operand bytes the code
   writes into the mnemonic are left out; they are read only where the list
   is long enough. *)
disassemble_one(instructions) ==
    LET pair(t) == IF Len(t) = 2
                   THEN [code |-> "mnemonic", op |-> t[1], length |-> t[2], raised |-> ""]
                   ELSE [code |-> "", op |-> << >>, length |-> 0, raised |-> "ValueError"]
        unknown(n) == [code |-> "???", op |-> << >>, length |-> n, raised |-> ""]
        third == pair(MnemonicAndLength(<< instructions[1], instructions[2],
                                           instructions[4] >>))
        second(p) ==
            IF p.raised # "" \/ p.length # 0 THEN p
            ELSE IF Len(instructions) > 3
            THEN IF InTable(<< instructions[1], instructions[2], instructions[4] >>)
                 THEN third
                 ELSE unknown(4)
            ELSE unknown(4)
        first(p) ==
            IF p.raised # "" \/ p.length # 0 THEN p
            ELSE IF Len(instructions) > 1
            THEN IF InTable(<< instructions[1], instructions[2] >>)
                 THEN second(pair(MnemonicAndLength(<< instructions[1], instructions[2] >>)))
                 ELSE unknown(2)
            ELSE unknown(2)
    IN IF InTable(<< instructions[1] >>)
       THEN first(pair(MnemonicAndLength(<< instructions[1] >>)))
       \* (code, length) = ("???", "1"): range(0, "1") raises
       ELSE [code |-> "???", op |-> << >>, length |-> 1, raised |-> "TypeError"]

\* ---------------------------------------------------------------- the generators

(* Each run operator is one next() of the state's generator: the code from
   the yield the generator stands at (pos) to the next yield or the return. *)

\* OCF.run that counts the byte before it looks it up.
OCF_run_counting(m) ==
    LET s == m.pipeline[1]
    IN
    CASE s.pos = 0 ->
            Yielded([m EXCEPT !.pipeline[1].PC = m.reg.PC])
      [] s.pos = 1 ->
            LET byte == IF s.ds THEN NextByte(m) ELSE MemRead(m, s.PC)
                m1 == IF s.ds THEN Consume(m) ELSE LogRead(m, s.PC)
                inst == s.prefix \o << byte >>
            IN Yielded([m1 EXCEPT !.pipeline[1].inst = inst,
                                  !.mri = [tag |-> "op", inst |-> inst]])
      [] s.pos = 2 ->
            LET m1 == IF ~s.ds THEN SetReg(m, "PC", s.PC + 1) ELSE m
            IN IF ~InTable(s.inst)
               THEN [m |-> UnrecognisedInstructionError(m1, s.inst), done |-> FALSE]
               ELSE IF ~Modelled(s.inst) THEN Raised(m, "Unmodelled")
               ELSE Yielded(m1)
      [] s.pos >= 3 ->
            LET e == decode_instruction(s.inst)
            IN IF s.pos - 3 < s.extra + e.extra - 1 THEN Yielded(m)
               ELSE LET states == [i \in 1..Len(e.states) |->
                                      set_data_source(e.states[i], s.ds)]
                        m1 == [m EXCEPT !.pipeline = @ \o states]
                    IN AfterAction(Act(do_each(e.actions), m1, << >>))

OCF_run(m) ==
    LET s == m.pipeline[1]
    IN
    CASE s.pos = 0 ->
            \* PC = self.cpu.reg.PC
            Yielded([m EXCEPT !.pipeline[1].PC = m.reg.PC])
      [] s.pos = 1 ->
            LET byte == IF s.ds THEN NextByte(m) ELSE MemRead(m, s.PC)
                m1 == IF s.ds THEN Consume(m) ELSE LogRead(m, s.PC)
                inst == s.prefix \o << byte >>
            IN Yielded([m1 EXCEPT !.pipeline[1].inst = inst,
                                  !.mri = [tag |-> "op", inst |-> inst]])
      [] s.pos = 2 ->
            \* an opcode of the table outside the part modelled here stops
            \* the machine with "Unmodelled"; TypeOK shows none is reached
            IF ~InTable(s.inst)
            THEN [m |-> UnrecognisedInstructionError(m, s.inst), done |-> FALSE]
            ELSE IF ~Modelled(s.inst) THEN Raised(m, "Unmodelled")
            ELSE IF ~s.ds THEN Yielded(SetReg(m, "PC", s.PC + 1))
            ELSE Yielded(m)
      [] s.pos >= 3 ->
            LET e == decode_instruction(s.inst)
            IN IF s.pos - 3 < s.extra + e.extra - 1 THEN Yielded(m)
               ELSE LET states == [i \in 1..Len(e.states) |->
                                      set_data_source(e.states[i], s.ds)]
                        \* self.pipeline.extend(states)
                        m1 == [m EXCEPT !.pipeline = @ \o states]
                    IN AfterAction(Act(do_each(e.actions), m1, << >>))

Compound(compound, new, old) == high_after_low(new, old)

\* The operand byte taken as it is, signed or not.
Unsigned(byte, signed) == byte

\* if signed and D >= 0x80: D = D - 0x100
Signed(byte, signed) == IF signed /\ byte >= 128 THEN byte - 256 ELSE byte

OD_run(m) ==
    LET s == m.pipeline[1]
    IN
    CASE s.pos = 0 -> Yielded([m EXCEPT !.pipeline[1].PC = m.reg.PC])
      [] s.pos = 1 ->
            LET byte == IF s.ds THEN NextByte(m) ELSE MemRead(m, s.PC)
                m1 == IF s.ds THEN Consume(m) ELSE LogRead(m, s.PC)
            IN Yielded([m1 EXCEPT !.pipeline[1].D = Signed(byte, s.signed)])
      [] s.pos = 2 ->
            LET m1 == IF ~s.ds THEN SetReg(m, "PC", s.PC + 1) ELSE m
                D == IF HasKey(m, s.key) /\ s.compound # None
                     THEN Compound(s.compound, s.D, kwargs(m)[s.key])
                     ELSE s.D
            IN IF s.action # None THEN AfterAction(Act(s.action[1], m1, << D >>))
               ELSE Returned(SetKey(m1, s.key, D))

\* The address of an MR or MW: the literal, the register, or kwargs['address'].
HasAddress(m) ==
    LET s == m.pipeline[1]
    IN s.address # None \/ s.indirect # None \/ HasKey(m, "address")

ResolveAddress(m) ==
    LET s == m.pipeline[1]
    IN IF s.address # None THEN s.address[1]
       ELSE IF s.indirect # None THEN getattr(m.reg, s.indirect[1])
       ELSE kwargs(m)["address"]

MR_run(m) ==
    LET s == m.pipeline[1]
    IN
    CASE s.pos = 0 ->
            IF ~HasAddress(m) THEN Raised(m, "Exception")
            ELSE Yielded([m EXCEPT !.pipeline[1].address = Some(ResolveAddress(m))])
      [] s.pos = 1 ->
            Yielded([LogRead(m, s.address[1]) EXCEPT
                        !.pipeline[1].D = MemRead(m, s.address[1])])
      [] s.pos = 2 ->
            LET D == IF HasKey(m, "value") /\ s.compound # None
                     THEN Compound(s.compound, s.D, kwargs(m)["value"])
                     ELSE s.D
                m1 == IF s.incaddr THEN SetKey(m, "address", s.address[1] + 1) ELSE m
            IN IF s.action # None THEN AfterAction(Act(s.action[1], m1, << D >>))
               ELSE Returned(SetKey(m1, "value", D))

MW_run(m) ==
    LET s == m.pipeline[1]
    IN
    CASE s.pos = 0 ->
            IF ~HasAddress(m) THEN Raised(m, "Exception")
            ELSE Yielded([m EXCEPT !.pipeline[1].address = Some(ResolveAddress(m))])
      [] s.pos = 1 ->
            IF s.value.t = "none"
            THEN IF s.source = None
                 THEN IF ~HasKey(m, "value") THEN Raised(m, "Exception")
                      ELSE Yielded([m EXCEPT !.pipeline[1].value = Lit(kwargs(m)["value"])])
                 ELSE Yielded([m EXCEPT !.pipeline[1].value =
                                            Lit(getattr(m.reg, s.source[1]))])
            ELSE IF s.value.t = "fn"
            THEN Yielded([m EXCEPT !.pipeline[1].value = Lit(Call(s.value, m, << >>))])
            ELSE Yielded(m)
      [] s.pos = 2 ->
            LET m1 == SetKey(MemWrite(m, s.address[1], s.value.v),
                             "address", s.address[1] + 1)
            IN IF s.extra > 0 THEN Yielded(m1)
               ELSE AfterAction(ActOpt(s.action, m1, << s.value.v >>))
      [] s.pos >= 3 ->
            IF s.pos - 2 < s.extra THEN Yielded(m)
            ELSE AfterAction(ActOpt(s.action, m, << s.value.v >>))

\* SR that increments SP at its first tick, before the byte is read.
SR_increment_first(m) ==
    LET s == m.pipeline[1]
    IN
    CASE s.pos = 0 -> Yielded(SetReg([m EXCEPT !.pipeline[1].address = m.reg.SP],
                                     "SP", m.reg.SP + 1))
      [] s.pos = 1 ->
            Yielded([LogRead(m, s.address) EXCEPT !.pipeline[1].D = MemRead(m, s.address)])
      [] s.pos >= 2 ->
            IF s.pos - 2 < s.extra THEN Yielded(m)
            ELSE LET D == IF HasKey(m, "value") /\ s.compound # None
                          THEN Compound(s.compound, s.D, kwargs(m)["value"])
                          ELSE s.D
                 IN AfterAction(ActOpt(s.action, SetKey(m, "value", D), << D >>))

SR_run(m) ==
    LET s == m.pipeline[1]
    IN
    CASE s.pos = 0 -> Yielded([m EXCEPT !.pipeline[1].address = m.reg.SP])
      [] s.pos = 1 ->
            Yielded([LogRead(m, s.address) EXCEPT !.pipeline[1].D = MemRead(m, s.address)])
      [] s.pos >= 2 ->
            IF s.pos - 2 < s.extra THEN Yielded(m)
            ELSE LET D == IF HasKey(m, "value") /\ s.compound # None
                          THEN Compound(s.compound, s.D, kwargs(m)["value"])
                          ELSE s.D
                     m1 == SetKey(m, "value", D)
                     m2 == SetReg(m1, "SP", m1.reg.SP + 1)
                 IN AfterAction(ActOpt(s.action, m2, << D >>))

\* SW that writes at SP first and decrements SP afterwards.
SW_postdecrement(m) ==
    LET s == m.pipeline[1]
    IN
    CASE s.pos >= 0 /\ s.pos < s.extra + 1 -> Yielded(m)
      [] s.pos = 1 + s.extra -> Yielded([m EXCEPT !.pipeline[1].address = m.reg.SP])
      [] s.pos = 2 + s.extra ->
            LET D == IF s.source # None THEN getattr(m.reg, s.source[1])
                     ELSE kwargs(m)[s.key]
                m1 == SetReg(MemWrite(m, s.address, D), "SP", m.reg.SP - 1)
            IN AfterAction(ActOpt(s.action, m1, << D >>))

SW_run(m) ==
    LET s == m.pipeline[1]
    IN
    CASE s.pos = 0 -> Yielded(SetReg(m, "SP", m.reg.SP - 1))
      [] s.pos >= 1 /\ s.pos - 1 < s.extra -> Yielded(m)
      [] s.pos = 1 + s.extra -> Yielded([m EXCEPT !.pipeline[1].address = m.reg.SP])
      [] s.pos = 2 + s.extra ->
            IF s.source = None /\ ~HasKey(m, s.key) THEN Raised(m, "KeyError")
            ELSE LET D == IF s.source # None THEN getattr(m.reg, s.source[1])
                          ELSE kwargs(m)[s.key]
                 IN AfterAction(ActOpt(s.action, MemWrite(m, s.address, D), << D >>))

\* The transform an IO applies to kwargs[key] at its first tick, if any.
Transformed(m, key) ==
    LET s == m.pipeline[1]
        v == kwargs(m)[key]
    IN IF s.transform.t = "fn" /\ key = s.key THEN Call(s.transform, m, << v >>)
       ELSE IF s.transform.t = "dict" /\ key \in DOMAIN s.transform.d
       THEN Call(s.transform.d[key], m, << v >>)
       ELSE v

\* IO that yields once for each of its ticks and returns in the tick after.
IO_yield_each(m) ==
    LET s == m.pipeline[1]
    IN IF s.pos < s.ticks THEN Yielded(m)
       ELSE AfterAction(ActOpt(s.action, m, << >>))

IO_run(m) ==
    LET s == m.pipeline[1]
        m1 == IF s.pos = 0
              THEN [m EXCEPT !.pipeline[1].kwargs =
                                [k \in DOMAIN @ |-> Transformed(m, k)]]
              ELSE m
    IN IF s.pos < s.ticks - 1 THEN Yielded(m1)
       ELSE AfterAction(ActOpt(s.action, m1, << >>))

\* PW that puts its byte on the port at its last tick as well as its third.
PW_write_twice(m) ==
    LET s == m.pipeline[1]
    IN
    CASE s.pos = 0 ->
            IF s.low = None /\ ~HasKey(m, "address") THEN Raised(m, "KeyError")
            ELSE Yielded([m EXCEPT
                    !.pipeline[1].lowv = IF s.low # None THEN getattr(m.reg, s.low[1])
                                         ELSE kwargs(m)["address"] % 256,
                    !.pipeline[1].highv = IF s.high # None THEN getattr(m.reg, s.high[1])
                                          ELSE 0])
      [] s.pos = 1 ->
            IF s.source = None /\ ~HasKey(m, "value") THEN Raised(m, "KeyError")
            ELSE Yielded([m EXCEPT
                    !.pipeline[1].D = IF s.source # None THEN getattr(m.reg, s.source[1])
                                      ELSE kwargs(m)["value"] % 256])
      [] s.pos = 2 -> Yielded(IoWrite(m, s.lowv, s.highv, s.D))
      [] s.pos = 3 ->
            AfterAction(ActOpt(s.action,
                               SetKey(IoWrite(m, s.lowv, s.highv, s.D), "value", s.D),
                               << s.D >>))

PR_run(m) ==
    LET s == m.pipeline[1]
    IN
    CASE s.pos = 0 ->
            IF s.low = None /\ ~HasKey(m, "value") THEN Raised(m, "KeyError")
            ELSE Yielded([m EXCEPT
                    !.pipeline[1].lowv = IF s.low # None THEN getattr(m.reg, s.low[1])
                                         ELSE kwargs(m)["value"] % 256,
                    !.pipeline[1].highv = IF s.high # None THEN getattr(m.reg, s.high[1])
                                          ELSE 0])
      [] s.pos = 1 ->
            LET m1 == IoRead(m, s.lowv, s.highv)
            IN Yielded([m1 EXCEPT !.pipeline[1].D = m1.buslog[Len(m1.buslog)].val])
      [] s.pos = 2 -> Yielded(m)
      [] s.pos = 3 ->
            LET m1 == IF s.dest # None THEN SetReg(m, s.dest[1], s.D) ELSE m
            IN AfterAction(ActOpt(s.action, SetKey(m1, "value", s.D), << s.D >>))

PW_run(m) ==
    LET s == m.pipeline[1]
    IN
    CASE s.pos = 0 ->
            IF s.low = None /\ ~HasKey(m, "address") THEN Raised(m, "KeyError")
            ELSE Yielded([m EXCEPT
                    !.pipeline[1].lowv = IF s.low # None THEN getattr(m.reg, s.low[1])
                                         ELSE kwargs(m)["address"] % 256,
                    !.pipeline[1].highv = IF s.high # None THEN getattr(m.reg, s.high[1])
                                          ELSE 0])
      [] s.pos = 1 ->
            IF s.source = None /\ ~HasKey(m, "value") THEN Raised(m, "KeyError")
            ELSE Yielded([m EXCEPT
                    !.pipeline[1].D = IF s.source # None THEN getattr(m.reg, s.source[1])
                                      ELSE kwargs(m)["value"] % 256])
      [] s.pos = 2 -> Yielded(IoWrite(m, s.lowv, s.highv, s.D))
      [] s.pos = 3 ->
            AfterAction(ActOpt(s.action, SetKey(m, "value", s.D), << s.D >>))

run(m) ==
    LET kind == m.pipeline[1].kind
    IN CASE kind = "OCF" -> OCF_run(m)
         [] kind = "OD" -> OD_run(m)
         [] kind = "MR" -> MR_run(m)
         [] kind = "MW" -> MW_run(m)
         [] kind = "SR" -> SR_run(m)
         [] kind = "SW" -> SW_run(m)
         [] kind = "IO" -> IO_run(m)
         [] kind = "PR" -> PR_run(m)
         [] kind = "PW" -> PW_run(m)

\* clock that pops the state that has returned and hands nothing on.
clock_no_cascade(m) ==
    CHOOSE after \in
        { IF ~r.done THEN r.m ELSE [r.m EXCEPT !.pipeline = Tail(@)] :
              r \in { run(m) } } : TRUE

(* MachineState.clock(pipeline) of the head state: one next(); when the
   generator returns, the state leaves the pipeline and its kwargs become
   those of the new head. *)
clock(m) ==
    \* r is the outcome of the one next()
    CHOOSE after \in
        { IF ~r.done THEN r.m
          ELSE [r.m EXCEPT !.pipeline =
                    IF Len(@) = 1 THEN << >>
                    ELSE << [@[2] EXCEPT !.kwargs = r.m.pipeline[1].kwargs] >>
                         \o Tail(Tail(@))] : r \in { run(m) } } : TRUE

(* interrupt_response(cpu, nmi, ack): the pipeline that answers an interrupt.
   bytes is what ack(cpu) yields (nothing when there is no ack). *)
interrupt_response(m, nmi, bytes) ==
    LET m1 == [m EXCEPT !.ds = bytes]
    IN IF nmi
       THEN [m1 EXCEPT !.mri = [tag |-> "NMI", inst |-> << >>],
                       !.pipeline = << IO(5, TRUE, NoTransform, Some(inta), "value"),
                                       SWs("PCH"),
                                       SWsa("PCL", JP(Lit(102), None, None)) >>]
       ELSE IF m.interrupt_mode = 0
       THEN [m1 EXCEPT !.mri = [tag |-> "INT0", inst |-> << >>],
                       !.pipeline = << set_data_source(OCF(<< >>, 2), TRUE) >>]
       ELSE IF m.interrupt_mode = 1
       THEN [m1 EXCEPT !.mri = [tag |-> "INT1", inst |-> << >>],
                       !.pipeline = << IO(7, TRUE, NoTransform, Some(inta), "value"),
                                       SWs("PCH"),
                                       SWsa("PCL", JP(Lit(56), None, None)) >>]
       ELSE IF m.interrupt_mode = 2
       THEN [m1 EXCEPT !.mri = [tag |-> "INT2", inst |-> << >>],
                       !.pipeline =
                           << IO(4, TRUE, NoTransform, None, "value"),
                              set_data_source(
                                  ODa(RRr("address", None, Fn("vector_address"))), TRUE),
                              SWs("PCH"),
                              SWs("PCL"),
                              MR(None, None, HAL, None, TRUE),
                              MR(None, None, HAL, Some(JP(NoValue, None, None)), TRUE) >>]
       ELSE Raise(m1, "Exception")

\* ------------------------------------------------------------------ the CPU

VARIABLES
    reg,             \* cpu.reg
    membus,          \* the RAM behind cpu.membus
    iobus,           \* the ports behind cpu.iobus
    pipeline,        \* cpu.pipeline
    iff1, iff2,      \* cpu.iff1, cpu.iff2
    interrupt_mode,  \* cpu.interrupt_mode
    ds,              \* what is left of the data source of the interrupt in service
    mri,             \* cpu.most_recent_instruction
    err,             \* the exception that stopped the CPU, "" for none
    errinst,         \* the instruction an UnrecognisedInstructionError carries
    buslog,          \* the memory bus transactions of the pipeline in flight
    dev,             \* the bytes the interrupting device supplies on acknowledge
    via,             \* how the pipeline in flight began: "OCF", "NMI" or "INT"
    pre,             \* the CPU state when the pipeline in flight began
    ticks,           \* clock ticks given to the pipeline in flight
    trace,           \* one record per completed pipeline, oldest first
    nintr,           \* interrupt requests accepted so far
    aborted,         \* what each early_abort of the last tick popped, in order
    _instructions,   \* the bytes disassemble_instructions was given
    instructions,    \* disassemble_instructions: the bytes still to go
    ret,             \* disassemble_instructions: the pairs found so far
    flags,           \* set_flags on its own: the template it was given
    given,           \* set_flags on its own: the raw value D it was given
    int              \* cpu.int, the interrupt-pending latch the driver keeps

vars == << reg, membus, iobus, pipeline, iff1, iff2, interrupt_mode, ds, mri, err,
           errinst, buslog, dev, via, pre, ticks, trace, nintr, aborted,
           _instructions, instructions, ret, flags, given, int >>

\* What the CPU's steps leave alone: its environment and the disassembler.
apart == << dev, _instructions, instructions, ret, flags, given >>

(* The driver's interrupt latch over a tick: the tick sees int, and by the
   next the driver may have set or cleared it, for as long as it has
   interrupts to take. *)
Latched == int' \in (IF nintr < MaxInterrupts THEN BOOLEAN ELSE {int})

\* The CPU as the record the machine states act on.
cpu == [reg |-> reg, membus |-> membus, iobus |-> iobus, pipeline |-> pipeline, iff1 |-> iff1,
        iff2 |-> iff2, interrupt_mode |-> interrupt_mode, ds |-> ds, mri |-> mri,
        err |-> err, errinst |-> errinst, buslog |-> buslog, aborted |-> << >>,
        int |-> int]

Snapshot(m) == [reg |-> m.reg, membus |-> m.membus, iff1 |-> m.iff1,
                iff2 |-> m.iff2, interrupt_mode |-> m.interrupt_mode]

(* One clock tick given to the head of the pipeline of m; how: via begins a
   pipeline at this tick, "" continues the one in flight. *)
Clocked(m, how) ==
    \E m2 \in {clock(m)} :
    LET began == how # ""
        v == IF began THEN how ELSE via
        p == IF began THEN Snapshot(m) ELSE pre
        t == IF began THEN 1 ELSE ticks + 1
    IN /\ reg' = m2.reg
       /\ membus' = m2.membus
       /\ iobus' = m2.iobus
       /\ pipeline' = m2.pipeline
       /\ iff1' = m2.iff1
       /\ iff2' = m2.iff2
       /\ interrupt_mode' = m2.interrupt_mode
       /\ ds' = m2.ds
       /\ mri' = m2.mri
       /\ err' = m2.err
       /\ errinst' = m2.errinst
       /\ buslog' = m2.buslog
       /\ aborted' = m2.aborted
       /\ via' = v
       /\ pre' = p
       /\ ticks' = t
       /\ trace' = IF m2.pipeline = << >> /\ m2.err = ""
                   THEN Append(trace, [via |-> v, mri |-> m2.mri, ticks |-> t,
                                       pre |-> p, post |-> Snapshot(m2),
                                       log |-> m2.buslog])
                   ELSE trace

\* The pipeline is empty and no interrupt is taken: an OCF is enqueued and clocked.
Fetch ==
    /\ err = ""
    /\ pipeline = << >>
    /\ Len(trace) < MaxInstr
    /\ Clocked([cpu EXCEPT !.pipeline = << OCF(<< >>, 0) >>, !.buslog = << >>], "OCF")
    /\ Latched
    /\ UNCHANGED << apart, nintr >>

\* The pipeline in flight gets one more tick.
Tick ==
    /\ err = ""
    /\ pipeline # << >>
    /\ Clocked(cpu, "")
    /\ Latched
    /\ UNCHANGED << apart, nintr >>

(* The pipeline is empty and an interrupt is pending (an NMI, or a maskable
   interrupt, latched, while IFF1 is set): the response is enqueued and
   clocked. *)
Interrupt(nmi) ==
    /\ err = ""
    /\ pipeline = << >>
    /\ Len(trace) < MaxInstr
    /\ nintr < MaxInterrupts
    /\ nmi \/ (int /\ iff1 = 1)
    /\ Clocked(interrupt_response([cpu EXCEPT !.buslog = << >>], nmi, dev),
               IF nmi THEN "NMI" ELSE "INT")
    /\ nintr' = nintr + 1
    /\ Latched
    /\ UNCHANGED apart

NMI == Interrupt(TRUE)
INT == Interrupt(FALSE)

Next == Fetch \/ Tick \/ NMI \/ INT

\* ------------------------------------------------------------- initial states

\* The bytes of prog in memory from address p on.
Load(prog, p) ==
    [a \in {(p + i - 1) % 65536 : i \in 1..Len(prog)} |->
        prog[CHOOSE i \in 1..Len(prog) : (p + i - 1) % 65536 = a]]

(* The addresses the initial states use: origin, where the program under test
   starts; target, where calls and jumps go (a RET is placed there); block,
   the source block of the block instructions; table, the interrupt vector
   table of mode 2 for I = 0x80 and the device byte 0x20; its entry names
   the handler at 0x9000. *)
Addr == [origin |-> 256, target |-> 512, block |-> 1024, table |-> 32800]
Origin == Addr.origin
Target == Addr.target
Block == Addr.block
Table == Addr.table
BlockData == << 17, 34, 51, 68 >>

Regs0 == [AF |-> 4608, BC |-> 13398, DE |-> 30874, HL |-> 48350, IX |-> 4660,
          IY |-> 22136, SP |-> 65534, PC |-> Origin, I |-> 128, R |-> 0,
          AF_ |-> 43707, BC_ |-> 52428, DE_ |-> 56797, HL_ |-> 61166]

\* The programs whose timing and result the properties below are about.
Programs ==
    { << 0 >>, << 62, 66 >>, << 1, 52, 18 >>, << 195, 0, 2 >>, << 193 >>,
      << 197 >>, << 255 >>, << 201 >>, << 205, 0, 2 >>, << 9 >>, << 251 >>,
      << 243 >>, << 221, 229 >>, << 253, 225 >> }
    \cup { << 192 + 8 * cc >> : cc \in 0..3 }
    \cup { << 194 + 8 * cc, 0, 2 >> : cc \in 0..1 }
    \cup { << 196 + 8 * cc, 0, 2 >> : cc \in 0..1 }
    \cup { << 16, d >> : d \in {254, 5} }
    \cup { << 24, d >> : d \in {254, 127} }
    \cup { << 32 + 8 * cc, d >> : cc \in 0..3, d \in {254, 5, 128, 127} }

\* PUSH rr ; POP rr for the six register pairs.
PushPop ==
    { << 197, 193 >>, << 213, 209 >>, << 229, 225 >>, << 245, 241 >>,
      << 221, 229, 221, 225 >>, << 253, 229, 253, 225 >> }

(* The CPU before its first tick; n is the number of interrupt requests taken
   as made already: 0 lets the environment interrupt the program, MaxInterrupts
   lets it run alone. *)
StartedWith(r, mem, io, iff, mode, bytes, n) ==
    /\ reg = r
    /\ membus = mem
    /\ iobus = io
    /\ pipeline = << >>
    /\ iff1 = iff
    /\ iff2 = iff
    /\ interrupt_mode = mode
    /\ ds = << >>
    /\ mri = [tag |-> "none", inst |-> << >>]
    /\ err = ""
    /\ errinst = << >>
    /\ buslog = << >>
    /\ dev = bytes
    /\ via = ""
    /\ pre = Snapshot([reg |-> r, membus |-> mem, iff1 |-> iff, iff2 |-> iff,
                       interrupt_mode |-> mode])
    /\ ticks = 0
    /\ trace = << >>
    /\ nintr = n
    /\ aborted = << >>
    /\ _instructions = << >>
    /\ instructions = << >>
    /\ ret = << >>
    /\ flags = << >>
    /\ given = 0
    /\ int \in (IF n < MaxInterrupts THEN BOOLEAN ELSE {FALSE})

\* The same, with no port holding a byte.
Started(r, mem, iff, mode, bytes, n) == StartedWith(r, mem, << >>, iff, mode, bytes, n)

\* One instruction from Programs, under each setting of the flags it may test.
InitProgram ==
    \E prog \in Programs, f \in {0, 65, 255}, b \in {1, 2}, sp \in {65534, 1} :
        Started([Regs0 EXCEPT !.AF = 4608 + f, !.BC = (b * 256) + 86, !.SP = sp],
                Load(prog, Origin) @@ Load(<< 201 >>, Target)
                @@ Load(<< 3, 1 >>, 65534),
                0, 1, << >>, 0)

\* PUSH rr ; POP rr
InitPushPop ==
    \E prog \in PushPop, sp \in {65534, 1, 0} :
        Started([Regs0 EXCEPT !.SP = sp], Load(prog, Origin), 0, 1, << >>, 0)

\* LDIR over a block of n bytes, to a destination apart from or overlapping it.
InitLDIR ==
    \E n \in 1..MaxCount, s \in {Block, 65535}, d \in {1280, Block + 1, Block - 1, Origin} :
        Started([Regs0 EXCEPT !.BC = n, !.HL = s, !.DE = d],
                Load(<< 237, 176 >>, Origin) @@ Load(BlockData, Block)
                @@ Load(<< 62 >>, 65535),
                0, 1, << >>, 0)

\* CPIR looking for A among n bytes of the block.
InitCPIR ==
    \E n \in 1..MaxCount, a \in {17, 34, 51, 153} :
        Started([Regs0 EXCEPT !.BC = n, !.HL = Block, !.AF = a * 256],
                Load(<< 237, 177 >>, Origin) @@ Load(BlockData, Block),
                0, 1, << >>, 0)

\* What an interrupting device may put on the bus when acknowledged.
Devices ==
    { << >>, << 32 >>, << 33 >>, << 255 >>, << 62, 66 >>, << 62 >>, << 1, 52 >>,
      << 1, 52, 18 >>, << 205, 0, 2 >>, << 221, 229 >> }

\* A CPU with interrupts enabled, in each mode, facing each device.
InitInterrupt ==
    \E mode \in 0..2, bytes \in Devices, sp \in {65534, 1, Table + 2}, i \in {128, 0} :
        Started([Regs0 EXCEPT !.SP = sp, !.I = i],
                Load(<< 0 >>, Origin) @@ Load(<< 0, 144 >>, Table)
                @@ Load(<< 52, 18 >>, 32),
                1, mode, bytes, 0)

\* The exchanges, each run twice, and run one after the other.
Exchanges ==
    { << 8, 8 >>, << 217, 217 >>, << 235, 235 >>, << 8, 217, 235 >>,
      << 235, 217, 235 >>, << 217, 8, 8 >> }

InitExchange ==
    \E prog \in Exchanges, hl \in {48350, 30874, 255} :
        Started([Regs0 EXCEPT !.HL = hl], Load(prog, Origin), 0, 1, << >>, 0)

\* The opcodes of the 8-bit arithmetic: ADD, ADC, SUB, SBC, CP, INC, DEC.
ArithOps ==
    (128..159) \cup (184..191)
    \cup {4 + 8 * i : i \in 0..7} \cup {5 + 8 * i : i \in 0..7}

(* One arithmetic instruction on A = a and an operand b (in B, C, D, E and at
   (HL); H and L are the halves of the block's address), with the flags all
   clear or all set but for the carry. *)
InitArith ==
    \E op \in ArithOps, a \in {0, 15, 63, 127, 128, 255}, b \in {0, 1, 15, 128, 255},
       f \in {0, 1, 254, 255} :
        Started([Regs0 EXCEPT !.AF = (a * 256) + f, !.BC = b * 257, !.DE = b * 257,
                              !.HL = Block],
                Load(<< op >>, Origin) @@ Load(<< b >>, Block), 0, 1, << >>, MaxInterrupts)

\* The bytes whose two nibbles are both decimal digits.
BCD == { (16 * hi) + lo : hi \in 0..9, lo \in 0..9 }

\* DAA ; DAA on a decimal A and on some others, under H = N = C = 0 and not.
InitDAA ==
    \E a \in BCD \cup {10, 154, 160, 255}, f \in {0, 236, 1, 2, 16, 19} :
        Started([Regs0 EXCEPT !.AF = (a * 256) + f], Load(<< 39, 39 >>, Origin),
                0, 1, << >>, MaxInterrupts)

(* BIT n,r and BIT n,(HL) for every n and r, on the value v in every
   register and at (HL), with the flags all clear or all set. *)
InitBIT ==
    \E x \in 64..127, v \in {0, 2, 85, 128, 170, 255}, f \in {0, 255} :
        Started([Regs0 EXCEPT !.AF = (v * 256) + f, !.BC = v * 257, !.DE = v * 257,
                              !.HL = v * 257],
                Load(<< 203, x >>, Origin) @@ Load(<< v >>, v * 257),
                0, 1, << >>, MaxInterrupts)

(* Every DDCB and FDCB opcode with displacements on both sides of 0x80, IX
   and IY pointing into different pages, and 0xA5 at the address meant. *)
InitIndexCB ==
    \E p \in {221, 253}, x \in IndexCBThird, d \in {0, 5, 127, 128, 255}, f \in {0, 1} :
        Started([Regs0 EXCEPT !.AF = 4608 + f, !.IX = Block, !.IY = 2 * Block],
                Load(<< p, 203, d, x >>, Origin)
                @@ Load(<< 165 >>, (IF p = 221 THEN Block ELSE 2 * Block)
                                   + (IF d >= 128 THEN d - 256 ELSE d)),
                0, 1, << >>, MaxInterrupts)

\* Opcodes INSTRUCTION_STATES has no entry for, after each prefix that has gaps.
Unknown ==
    { << 221, 0 >>, << 237, 0 >>, << 253, 255 >>, << 237, 255 >>, << 221, 64 >>,
      << 221, 203, 5, 0 >>, << 253, 203, 128, 7 >>, << 221, 203, 0, 255 >> }

(* An unknown opcode in memory, reached at once or after a NOP, and an unknown
   opcode supplied by the device of a mode-0 interrupt, whole or cut short. *)
InitUnknown ==
    \E prog \in Unknown, lead \in {<< >>, << 0 >>}, bytes \in {<< >>, << 237 >>} \cup Unknown :
        Started(Regs0, Load(lead \o prog, Origin), IF bytes = << >> THEN 0 ELSE 1,
                0, bytes, IF bytes = << >> THEN MaxInterrupts ELSE 0)

\* OUT (n),A, IN A,(n), IN r,(C) and OUT (C),r for each r, and EX (SP),HL.
PortOps ==
    { << 211, 7 >>, << 219, 7 >>, << 227 >> }
    \cup { << 237, 64 + (8 * i) + j >> : i \in 0..7, j \in 0..1 }

(* The port instructions facing ports that hold v, with each setting of A and
   the flags; the ports are those A and n, and B and C, address. *)
InitPorts ==
    \E prog \in PortOps, v \in {0, 1, 129, 255}, a \in {18, 255}, f \in {0, 255} :
        StartedWith([Regs0 EXCEPT !.AF = (a * 256) + f],
                    Load(prog, Origin) @@ Load(<< 205, 171 >>, 65534),
                    [port \in {(a * 256) + 7, Regs0.BC} |-> v],
                    0, 1, << >>, MaxInterrupts)

\* The addresses LD HL,(nn) and LD (nn),HL are given: within a page, at the
\* last byte of a page, and high in memory.
WordAddresses == {1024, 1279, 65279}

\* A NOP with interrupts enabled, in each mode, before a device that supplies
\* 0xFF: RST 38h in mode 0, the low byte of the vector in mode 2.
InitModes ==
    \E mode \in 0..2 :
        Started(Regs0, Load(<< 0 >>, Origin) @@ Load(<< 0, 2 >>, (Regs0.I * 256) + 254)
                       @@ Load(<< 201 >>, 56) @@ Load(<< 201 >>, 102),
                1, mode, << 255 >>, 0)

(* DI and EI, alone and one after the other, with the flip-flops both clear
   or both set, open to an NMI and to a mode-1 interrupt whose handlers
   return by RETN and by RET. *)
InitFlipFlops ==
    \E prog \in { << 243 >>, << 251 >>, << 243, 251 >>, << 251, 243 >> }, iff \in 0..1 :
        Started(Regs0, Load(prog \o << 0 >>, Origin)
                       @@ Load(<< 201 >>, 56) @@ Load(<< 237, 69 >>, 102),
                iff, 1, << >>, 0)

\* CALL cc,0x0200 for the eight conditions, with every flag clear and with
\* every flag set; a NOP is at 0x0200.
InitCalls ==
    \E cc \in 0..7, f \in {0, 255} :
        Started([Regs0 EXCEPT !.AF = (18 * 256) + f],
                Load(<< 196 + (8 * cc), 0, 2 >>, Origin) @@ Load(<< 0 >>, Target),
                0, 1, << >>, MaxInterrupts)

\* The repeating block instructions: LDIR, CPIR, INIR, OUTIR, LDDR, CPDR,
\* INDR, OUTDR.
BlockOps == { << 237, x >> : x \in (176..179) \cup (184..187) }

(* Each block instruction with two bytes to go, on the middle of the block
   (A is no byte of it), the ports (B, C) it meets holding a byte each;
   interrupts are enabled, and the handlers of the NMI and of mode 1 return
   at once, by RETN and by RET. *)
InitBlocks ==
    \E op \in BlockOps :
        StartedWith([Regs0 EXCEPT !.AF = 153 * 256,
                                  !.BC = IF op[2] % 4 >= 2 THEN (2 * 256) + 7 ELSE 2,
                                  !.HL = Block + 1, !.DE = 1281],
                    Load(op, Origin) @@ Load(BlockData, Block)
                    @@ Load(<< 201 >>, 56) @@ Load(<< 237, 69 >>, 102),
                    [port \in {(2 * 256) + 7, 256 + 7} |-> 64 + (port \div 256)],
                    1, 1, << >>, 0)

(* HALT, with a NOP after it, in the middle of memory and at its last
   address, interrupts enabled or not, the driver free to latch an
   interrupt and to take it. *)
InitHalt ==
    \E p \in {Origin, 65535}, iff \in {0, 1} :
        Started([Regs0 EXCEPT !.PC = p], Load(<< 118, 0 >>, p), iff, 1, << >>, 0)

(* RET, RETN and RETI with the return address Target on the stack, the
   stack at the top of memory and below it, and IFF1 and IFF2 as DI leaves
   them, as EI does, and as the driver leaves them after an NMI that came
   with both set. *)
InitReturns ==
    \E op \in { << 201 >>, << 237, 69 >>, << 237, 77 >> }, sp \in {65535, 65000},
       iff \in { << 0, 0 >>, << 1, 1 >>, << 0, 1 >> } :
       /\ reg = [Regs0 EXCEPT !.SP = sp]
       /\ membus = Load(op, Origin) @@ Load(<< 0 >>, Target)
                    @@ Load(<< Target % 256, Target \div 256 >>, sp)
       /\ iobus = << >>
       /\ pipeline = << >>
       /\ iff1 = iff[1] /\ iff2 = iff[2] /\ interrupt_mode = 1 /\ ds = << >>
       /\ mri = [tag |-> "none", inst |-> << >>]
       /\ err = "" /\ errinst = << >> /\ buslog = << >> /\ dev = << >>
       /\ via = "" /\ ticks = 0 /\ trace = << >> /\ nintr = MaxInterrupts
       /\ aborted = << >>
       /\ int = FALSE
       /\ pre = Snapshot(cpu)
       /\ _instructions = << >> /\ instructions = << >> /\ ret = << >>
       /\ flags = << >> /\ given = 0

\* LD (nn),rr and LD rr,(nn) for HL, IX, IY, BC, DE and SP; LD (nn),A, LD A,(nn).
WordOps ==
    { << 34 >>, << 42 >>, << 50 >>, << 58 >>, << 221, 34 >>, << 221, 42 >>,
      << 253, 34 >>, << 253, 42 >>, << 237, 67 >>, << 237, 75 >>, << 237, 83 >>,
      << 237, 91 >>, << 237, 115 >>, << 237, 123 >> }

(* Each of them at each of the addresses, the two bytes there being
   different, with two values of HL of unlike halves. *)
InitWords ==
    \E op \in WordOps, nn \in WordAddresses, lo \in {17, 128}, hl \in {Regs0.HL, 255} :
        Started([Regs0 EXCEPT !.HL = hl],
                Load(op \o << nn % 256, nn \div 256 >>, Origin) @@ Load(<< lo, 34 >>, nn),
                0, 1, << >>, MaxInterrupts)

(* Each instruction on the byte at IX + d, IY + d, with a displacement on
   either side of 0x80, IX and IY pointing into different pages and a byte b
   at the address meant; 0x3C is the operand of LD (IX+d),n, INC A after the
   others. *)
InitIndexed ==
    \E p \in {221, 253}, x \in IndexedSecond, d \in {5, 254}, b \in {15, 128},
       f \in {0, 255} :
        Started([Regs0 EXCEPT !.AF = (18 * 256) + f, !.IX = Block, !.IY = 2 * Block],
                Load(<< p, x, d, 60 >>, Origin)
                @@ Load(<< b >>, (IF p = 221 THEN Block ELSE 2 * Block)
                                 + (IF d >= 128 THEN d - 256 ELSE d)),
                0, 1, << >>, MaxInterrupts)

Init ==
    \/ InitPorts \/ InitWords \/ InitIndexed \/ InitReturns \/ InitHalt
    \/ InitBlocks \/ InitCalls \/ InitFlipFlops
    \/ InitProgram \/ InitPushPop \/ InitLDIR \/ InitCPIR \/ InitInterrupt
    \/ InitExchange \/ InitArith \/ InitDAA \/ InitBIT \/ InitIndexCB
    \/ InitUnknown

Spec == Init /\ [][Next]_vars

\* Without interrupt requests, and with the clock never stopping.
NextAlone == Fetch \/ Tick
FairSpec == InitCPIR /\ [][NextAlone]_vars /\ WF_vars(NextAlone)

\* With interrupt requests, and the clock never stopping while a pipeline
\* is in flight.
LiveInit ==
    \/ InitIndexCB \/ InitBlocks \/ InitCalls \/ InitModes
    \/ \E prog \in {<< 237, 0 >>, << 221, 203, 5, 0 >>} :
           Started(Regs0, Load(<< 0 >> \o prog, Origin), 0, 1, << >>, MaxInterrupts)
LiveSpec == LiveInit /\ [][Next]_vars /\ WF_vars(Tick)

\* ------------------------------------------------- disassemble_instructions

\* The longest byte sequence given to the disassembler.
MaxBytes == 4

(* The bytes the sequences are made of: NOP, LD BC,nn, LD L,n, LD A,n, SUB (HL),
   the four prefixes, and 0x06, 0x46 and 0xE5, which are opcodes of their own
   and second or last bytes after the prefixes. *)
Bytes == {0, 1, 46, 62, 150, 203, 221, 237, 253, 6, 70, 229}

RECURSIVE BoundedSeq(_, _)
\* The sequences over S no longer than n.
BoundedSeq(S, n) ==
    IF n = 0 THEN { << >> }
    ELSE LET shorter == BoundedSeq(S, n - 1)
         IN shorter \cup { Append(q, x) : q \in { t \in shorter : Len(t) = n - 1 }, x \in S }

\* One pass of the while loop: a pair is appended and its bytes are popped.
Disassemble ==
    /\ err = ""
    /\ Len(instructions) > 0
    /\ \E d \in { disassemble_one(instructions) } :
          IF d.raised # ""
          THEN err' = d.raised /\ UNCHANGED << instructions, ret >>
          ELSE /\ err' = ""
               /\ instructions' =
                      SubSeq(instructions,
                             (IF d.length < Len(instructions) THEN d.length
                              ELSE Len(instructions)) + 1,
                             Len(instructions))
               /\ ret' = Append(ret, [code |-> d.code, op |-> d.op, length |-> d.length])
    /\ UNCHANGED << reg, membus, iobus, pipeline, iff1, iff2, interrupt_mode, ds, mri, errinst,
                    buslog, dev, via, pre, ticks, trace, nintr, aborted,
                    _instructions, flags, given, int >>

\* disassemble_instructions(bytes) at its first line, the CPU standing by.
DisInit ==
    \E bytes \in BoundedSeq(Bytes, MaxBytes) :
        /\ reg = Regs0 /\ membus = << >> /\ iobus = << >> /\ pipeline = << >>
        /\ iff1 = 0 /\ iff2 = 0 /\ interrupt_mode = 0 /\ ds = << >>
        /\ mri = [tag |-> "none", inst |-> << >>]
        /\ err = "" /\ errinst = << >> /\ buslog = << >> /\ dev = << >>
        /\ via = "" /\ ticks = 0 /\ trace = << >> /\ nintr = 0 /\ aborted = << >>
        /\ int = FALSE
        /\ pre = Snapshot(cpu)
        /\ _instructions = bytes
        /\ instructions = bytes
        /\ ret = << >>
        /\ flags = << >>
        /\ given = 0

DisSpec == DisInit /\ [][Disassemble]_vars

\* The letters a template of set_flags may hold at each of its eight places.
Letters == << {"S", "-", "0", "1"}, {"Z", "-", "0", "1"}, {"5", "-", "0", "1"},
              {"H", "-", "0", "1"}, {"3", "-", "0", "1"},
              {"P", "V", "*", "-", "0", "1"}, {"-", "0", "1"}, {"C", "-", "0", "1"} >>

\* The templates that differ from base at one place at most.
OneLetterFrom(base) ==
    UNION { { [base EXCEPT ![i] = c] : c \in Letters[i] } : i \in 1..8 }

(* The templates set_flags is tried on: those with a letter at one place and
   '-' elsewhere, those of the table's commonest template with one place
   changed, and all-forced ones. *)
Templates ==
    OneLetterFrom(<< "-", "-", "-", "-", "-", "-", "-", "-" >>)
    \cup OneLetterFrom(<< "S", "Z", "5", "H", "3", "V", "1", "C" >>)
    \cup { << "0", "0", "0", "0", "0", "0", "0", "0" >>,
            << "1", "1", "1", "1", "1", "1", "1", "1" >>,
            << "S", "Z", "5", "0", "3", "P", "0", "0" >> }

\* The raw values: within a byte, beyond it either way, and at the edges of
\* the signed and the unsigned range.
RawValues == {-300, -256, -129, -128, -127, -1, 0, 1, 3, 7, 40, 85, 127, 128, 168,
              254, 255, 256, 257, 300, 341, 511}

(* set_flags(flags)(state) about to be called with state.kwargs['value'] =
   given: the action of an IO of one tick, alone in the pipeline. *)
FlagInit ==
    \E tpl \in Templates, d \in RawValues, f \in {0, 255, 165}, i2 \in {0, 1} :
       /\ reg = [Regs0 EXCEPT !.AF = (18 * 256) + f]
       /\ membus = << >> /\ iobus = << >>
       /\ pipeline = << [IO(1, FALSE, NoTransform,
                             Some(set_flags(tpl, Some("value"), None, NoValue, None)),
                             "value")
                          EXCEPT !.kwargs = [k \in {"value"} |-> d]] >>
       /\ iff1 = i2 /\ iff2 = i2 /\ interrupt_mode = 0 /\ ds = << >>
       /\ mri = [tag |-> "none", inst |-> << >>]
       /\ err = "" /\ errinst = << >> /\ buslog = << >> /\ dev = << >>
       /\ via = "" /\ ticks = 0 /\ trace = << >> /\ nintr = MaxInterrupts
       /\ aborted = << >>
       /\ int = FALSE
       /\ pre = Snapshot(cpu)
       /\ _instructions = << >> /\ instructions = << >> /\ ret = << >>
       /\ flags = tpl
       /\ given = d

FlagSpec == FlagInit /\ [][Tick]_vars

(* A pipeline that no table entry and no interrupt response has made: an MR
   or an MW alone, given a literal address or not, an indirect register or
   not, and a bag with 'address' or without; the MW has a source for its
   value.  A NOP is at PC. *)
BareInit ==
    \E kind \in {"MR", "MW"}, address \in {None, Some(Block)},
       indirect \in {None, Some("HL"), Some("DE")},
       bag \in { << >>, [k \in {"value"} |-> 7], [k \in {"address"} |-> 2 * Block],
                 [k \in {"address", "value"} |-> IF k = "value" THEN 7 ELSE 2 * Block] },
       incaddr \in BOOLEAN, a \in {18, 255} :
       /\ reg = [Regs0 EXCEPT !.AF = a * 256]
       /\ membus = Load(<< 0 >>, Origin) @@ Load(BlockData, Block)
       /\ iobus = << >>
       /\ pipeline =
             << [(IF kind = "MR" THEN MR(address, indirect, HAL, None, incaddr)
                  ELSE MW(address, indirect, NoValue, Some("A"), None,
                          IF incaddr THEN 1 ELSE 0))
                 EXCEPT !.kwargs = bag] >>
       /\ iff1 = 0 /\ iff2 = 0 /\ interrupt_mode = 1 /\ ds = << >>
       /\ mri = [tag |-> "none", inst |-> << >>]
       /\ err = "" /\ errinst = << >> /\ buslog = << >> /\ dev = << >>
       /\ via = "" /\ ticks = 0 /\ trace = << >> /\ nintr = MaxInterrupts
       /\ aborted = << >>
       /\ int = FALSE
       /\ pre = Snapshot(cpu)
       /\ _instructions = << >> /\ instructions = << >> /\ ret = << >>
       /\ flags = << >> /\ given = 0

\* RRD and RLD on each pairing of a digit 0, a digit in between and the
\* digit F, in A and at (HL).
InitDigits ==
    \E x \in {103, 111}, a \in {0, 15, 18, 240, 255}, v \in {0, 52, 128, 255} :
        Started([Regs0 EXCEPT !.AF = a * 256, !.HL = Block],
                Load(<< 237, x >>, Origin) @@ Load(<< v >>, Block),
                0, 1, << >>, MaxInterrupts)

(* The word loads at nn = 0xFFFF and 0xFFFE, and the loads of A through
   IX + d and IY + d with the index register at either end of memory and a
   displacement of either sign. *)
InitEdges ==
    \/ \E op \in WordOps, nn \in {65535, 65534} :
          Started(Regs0,
                  Load(op \o << nn % 256, nn \div 256 >>, Origin)
                  @@ Load(<< 17, 34 >>, nn),
                  0, 1, << >>, MaxInterrupts)
    \/ \E p \in {221, 253}, x \in {126, 119, 52}, base \in {0, 65535}, d \in {5, 254} :
          Started([Regs0 EXCEPT !.IX = base, !.IY = base],
                  Load(<< p, x, d, 60 >>, Origin), 0, 1, << >>, MaxInterrupts)
    \/ InitDigits

\* The CPU on the programs of Init and on those at the edges of memory and
\* of the byte.
EdgeSpec == (Init \/ InitEdges) /\ [][Next]_vars

\* The CPU on the pipelines of the table and of the interrupt responses, and
\* on the bare ones.
BareSpec == (Init \/ BareInit) /\ [][Next]_vars

TypeOK ==
    /\ \A name \in Wide : reg[name] \in 0..65535
    /\ reg.I \in 0..255
    /\ \A a \in DOMAIN membus : a \in 0..65535 /\ membus[a] \in 0..255
    /\ iff1 \in {0, 1} /\ iff2 \in {0, 1}
    /\ interrupt_mode \in 0..2
    /\ err \in {"", "UnrecognisedInstruction", "ValueError", "Exception"}

\* ------------------------------------------------------------------ timing

\* Whether condition code cc (NZ Z NC C PO PE P M) holds with flag byte f.
CondHolds(cc, f) ==
    IF cc % 2 = 0 THEN BitOf(f, FlagBit[CondFlag(cc)]) = 0
    ELSE BitOf(f, FlagBit[CondFlag(cc)]) = 1

\* The completed pipelines that began with an opcode fetch from memory.
Fetched == { i \in DOMAIN trace : trace[i].via = "OCF" }

\* The opcode byte of a one-byte instruction, -1 for a prefixed one.
Opcode(e) == IF Len(e.mri.inst) = 1 THEN e.mri.inst[1] ELSE -1

(* The Z80's documented T-cycle count of the one-byte instruction e ran, for
   the instructions it is given for: NOP 4, LD r,n 7, JP nn 10, POP rr 10,
   PUSH rr 11, RST p 11, RET cc 11 / 5, DJNZ 13 / 8, CALL nn 17, ADD HL,rr 11;
   0 for the others. *)
DocumentedTicks(e) ==
    LET b == Opcode(e)
        f == e.pre.reg.AF % 256
        y == (b \div 8) % 8
    IN CASE b = 0 -> 4
         [] b \in {6, 14, 22, 30, 38, 46, 62} -> 7
         [] b = 195 -> 10
         [] b \in {193, 209, 225, 241} -> 10
         [] b \in {197, 213, 229, 245} -> 11
         [] b >= 192 /\ b % 8 = 7 -> 11
         [] b >= 192 /\ b % 8 = 0 -> IF CondHolds(y, f) THEN 11 ELSE 5
         [] b = 16 -> IF e.pre.reg.BC \div 256 # 1 THEN 13 ELSE 8
         [] b = 205 -> 17
         [] b \in {9, 25, 41, 57} -> 11
         [] OTHER -> 0

(* C1: every instruction takes, from the first tick of its OCF until the
   pipeline is empty again, the documented Z80 T-cycle count, in both
   branches of the conditional ones. *)
C1_DocumentedTiming ==
    \A i \in Fetched :
        DocumentedTicks(trace[i]) # 0 => trace[i].ticks = DocumentedTicks(trace[i])

\* C1: PUSH BC has run to completion.
C1_PushDone == \E i \in Fetched : Opcode(trace[i]) = 197

(* The ticks OCF.run and the follow-on states give the same instructions:
   an OCF whose table entry asks for one extra clock still takes 4 ticks. *)
TicksAsCoded ==
    \A i \in Fetched :
        LET e == trace[i]
            b == Opcode(e)
            f == e.pre.reg.AF % 256
            y == (b \div 8) % 8
        IN /\ b \in {197, 213, 229, 245} => e.ticks = 10
           /\ b >= 192 /\ b % 8 = 7 => e.ticks = 10
           /\ b >= 192 /\ b % 8 = 0 => e.ticks = IF CondHolds(y, f) THEN 10 ELSE 4
           /\ b = 16 => e.ticks = IF e.pre.reg.BC \div 256 # 1 THEN 12 ELSE 7
           /\ b = 205 => e.ticks = 16
           /\ b \in {0, 6, 14, 22, 30, 38, 46, 62, 195, 193, 209, 225, 241, 9, 25, 41, 57}
                => e.ticks = DocumentedTicks(e)

\* ------------------------------------------------------------- CALL and RET

\* The 16-bit word at address a of a snapshot's memory, low byte first.
Word(snap, a) == MemRead(snap, a % 65536) + 256 * MemRead(snap, (a + 1) % 65536)

\* What CALL nn at PC=p, SP=s leaves behind, but for the ticks it takes.
CallOutcome(e) ==
    LET p == e.pre.reg.PC
        s == e.pre.reg.SP
    IN /\ e.post.reg.PC = Word(e.pre, p + 1)
       /\ e.post.reg.SP = (s - 2) % 65536
       /\ MemRead(e.post, (s - 1) % 65536) = ((p + 3) % 65536) \div 256
       /\ MemRead(e.post, (s - 2) % 65536) = (p + 3) % 256

\* What the RET r that follows the CALL c leaves behind, but for its ticks.
RetOutcome(c, r) ==
    /\ r.post.reg.PC = (c.pre.reg.PC + 3) % 65536
    /\ r.post.reg.SP = c.pre.reg.SP

\* The pipelines i, i+1 are a CALL nn and the RET it reaches.
CallThenRet(i) ==
    /\ i \in Fetched /\ i + 1 \in Fetched
    /\ Opcode(trace[i]) = 205 /\ Opcode(trace[i + 1]) = 201

(* C2: CALL nn at PC=p with SP=s ends with PC=nn, SP=s-2, mem[s-1] the high
   and mem[s-2] the low byte of p+3, after 17 ticks; the RET executed next
   ends with PC=p+3 and SP=s after 10 ticks. *)
C2_CallRet ==
    /\ \A i \in Fetched :
          Opcode(trace[i]) = 205 => CallOutcome(trace[i]) /\ trace[i].ticks = 17
    /\ \A i \in DOMAIN trace :
          CallThenRet(i) => RetOutcome(trace[i], trace[i + 1]) /\ trace[i + 1].ticks = 10

\* C2: a CALL nn and the RET it reaches have both run to completion.
C2_CallRetDone == \E i \in DOMAIN trace : CallThenRet(i)

\* CALL nn and RET as coded: the same outcome, in 16 and 10 ticks.
CallRetAsCoded ==
    /\ \A i \in Fetched :
          Opcode(trace[i]) = 205 => CallOutcome(trace[i]) /\ trace[i].ticks = 16
    /\ \A i \in DOMAIN trace :
          CallThenRet(i) => RetOutcome(trace[i], trace[i + 1]) /\ trace[i + 1].ticks = 10

\* -------------------------------------------------------------------- LDIR

RECURSIVE SumTicks(_)
\* The ticks of the first k completed pipelines together.
SumTicks(k) == IF k = 0 THEN 0 ELSE trace[k].ticks + SumTicks(k - 1)

\* The first k completed pipelines are all runs of the instruction inst.
Repeated(inst, k) ==
    /\ k \in DOMAIN trace
    /\ \A j \in 1..k : trace[j].via = "OCF" /\ trace[j].mri.inst = inst

RECURSIVE CopyUp(_, _, _, _, _)
(* The memory after copying mem[s+i] to mem[d+i] for i, i+1, ..., n-1, one
   byte after the other. *)
CopyUp(mem, s, d, i, n) ==
    IF i >= n THEN mem
    ELSE LET a == (d + i) % 65536
             v == MemRead([membus |-> mem], (s + i) % 65536)
         IN CopyUp([x \in (DOMAIN mem) \cup {a} |-> IF x = a THEN v ELSE mem[x]],
                   s, d, i + 1, n)

\* LDIR has stopped repeating after k runs: BC has reached 0.
LDIRDone(k) ==
    /\ Len(trace) = k
    /\ Repeated(<< 237, 176 >>, k)
    /\ pipeline = << >>
    /\ reg.BC = 0

(* C3: LDIR started at PC=p with BC=n >= 1, HL=s, DE=d copies mem[s+i] to
   mem[d+i] for i = 0..n-1 in increasing i, and when the pipeline is finally
   empty with BC=0: HL=s+n, DE=d+n, PC=p+2 (all 16 bits wide) and the ticks
   of all its runs together are 21*(n-1)+16. *)
C3_LDIR ==
    \A k \in DOMAIN trace :
        LDIRDone(k) =>
            LET r0 == trace[1].pre.reg
                n == r0.BC
            IN /\ k = n
               /\ membus = CopyUp(trace[1].pre.membus, r0.HL, r0.DE, 0, n)
               /\ reg.HL = (r0.HL + n) % 65536
               /\ reg.DE = (r0.DE + n) % 65536
               /\ reg.PC = (r0.PC + 2) % 65536
               /\ SumTicks(k) = 21 * (n - 1) + 16

\* C3: an LDIR of MaxCount bytes onto the block itself, one byte up, is done.
C3_LDIRDone ==
    /\ LDIRDone(MaxCount)
    /\ trace[1].pre.reg.DE = trace[1].pre.reg.HL + 1
    /\ SumTicks(MaxCount) = 21 * (MaxCount - 1) + 16

\* -------------------------------------------------------------------- CPIR

\* CPIR has stopped repeating after k runs: PC is past the instruction.
CPIRStopped(k) ==
    /\ Len(trace) = k
    /\ Repeated(<< 237, 177 >>, k)
    /\ pipeline = << >>
    /\ reg.PC = (trace[1].pre.reg.PC + 2) % 65536

\* How CPIR stops: BC = 0 or Z = 1, after 21 ticks per repeat and 16 at last.
CPIROutcome(k) ==
    /\ reg.BC = 0 \/ getflag(reg, "Z") = 1
    /\ SumTicks(k) = 21 * (k - 1) + 16

(* C4: CPIR terminates: ticking on reaches a state where it has stopped
   repeating (PC = p+2, pipeline empty); there BC = 0 or Z = 1, and the ticks
   of all its runs together are 21*(iterations-1)+16. *)
C4_CPIRTerminates ==
    /\ [](\A k \in DOMAIN trace : CPIRStopped(k) => CPIROutcome(k))
    /\ <>(\E k \in DOMAIN trace : CPIRStopped(k))

\* C4: CPIR has stopped on a match at its second byte with BC not yet 0.
C4_CPIRFound ==
    /\ CPIRStopped(2)
    /\ CPIROutcome(2)
    /\ reg.BC # 0
    /\ getflag(reg, "Z") = 1

\* C4: CPIR has stopped on BC = 0 without a match.
C4_CPIRExhausted ==
    /\ CPIRStopped(MaxCount)
    /\ reg.BC = 0
    /\ getflag(reg, "Z") = 0

\* ---------------------------------------------------------------------- JR

\* An operand byte as an 8-bit two's complement number.
TwosComplement(d) == IF d >= 128 THEN d - 256 ELSE d

(* C5: JR cc,d at PC=p takes d as an 8-bit two's complement offset: with the
   condition true it ends with PC = p+2+signed(d) after 12 ticks, with the
   condition false with PC = p+2 after 7 ticks (PC is 16 bits wide). *)
C5_JRcc ==
    \A i \in Fetched :
        LET e == trace[i]
            b == Opcode(e)
            p == e.pre.reg.PC
            d == MemRead(e.pre, (p + 1) % 65536)
        IN b \in {32, 40, 48, 56} =>
              IF CondHolds(((b \div 8) % 8) - 4, e.pre.reg.AF % 256)
              THEN e.post.reg.PC = (p + 2 + TwosComplement(d)) % 65536 /\ e.ticks = 12
              ELSE e.post.reg.PC = (p + 2) % 65536 /\ e.ticks = 7

\* C5: JR NZ,-2 with Z = 0 has jumped back onto itself in 12 ticks.
C5_JRTaken ==
    \E i \in Fetched :
        /\ Opcode(trace[i]) = 32
        /\ MemRead(trace[i].pre, trace[i].pre.reg.PC + 1) = 254
        /\ trace[i].post.reg.PC = trace[i].pre.reg.PC
        /\ trace[i].ticks = 12

\* C5: a JR Z,d with Z = 0 has fallen through in 7 ticks.
C5_JRNotTaken ==
    \E i \in Fetched :
        /\ Opcode(trace[i]) = 40
        /\ trace[i].post.reg.PC = trace[i].pre.reg.PC + 2
        /\ trace[i].ticks = 7

\* -------------------------------------------------------------- interrupts

\* The completed interrupt responses: to an NMI, and to a maskable interrupt
\* in mode k.
NMIs == { i \in DOMAIN trace : trace[i].via = "NMI" }
INTs(k) == { i \in DOMAIN trace : trace[i].via = "INT" /\ trace[i].pre.interrupt_mode = k }

\* The k-th byte the device supplies, 0x00 once it has no more.
DevByte(k) == IF k <= Len(dev) THEN dev[k] ELSE 0

\* The response e has pushed the PC it began with: high byte at SP-1, then
\* low byte at SP-2, and SP is down by 2.
PushedPC(e) ==
    LET r == e.pre.reg.PC
        s == e.pre.reg.SP
    IN /\ e.log = << [op |-> "write", addr |-> (s - 1) % 65536, val |-> r \div 256],
                     [op |-> "write", addr |-> (s - 2) % 65536, val |-> r % 256] >>
       /\ MemRead(e.post, (s - 1) % 65536) = r \div 256
       /\ MemRead(e.post, (s - 2) % 65536) = r % 256
       /\ e.post.reg.SP = (s - 2) % 65536

(* C6: the mode-2 response, started at PC=r with SP=s, I=i and a device
   yielding byte b, takes 19 ticks and ends with mem[s-1] the high and
   mem[s-2] the low byte of r, SP=s-2 and PC the little-endian word stored at
   (i<<8)|(b & 0xFE). *)
C6_Mode2 ==
    \A n \in INTs(2) :
        LET e == trace[n]
            r == e.pre.reg.PC
            s == e.pre.reg.SP
            v == (e.pre.reg.I * 256) + (DevByte(1) - (DevByte(1) % 2))
        IN /\ e.ticks = 19
           /\ MemRead(e.post, (s - 1) % 65536) = r \div 256
           /\ MemRead(e.post, (s - 2) % 65536) = r % 256
           /\ e.post.reg.SP = (s - 2) % 65536
           /\ e.post.reg.PC = Word(e.post, v)

\* C6: a mode-2 response to the odd byte 0x21 with I = 0x80 has reached the
\* handler the table names at 0x8020.
C6_Mode2Done ==
    \E n \in INTs(2) :
        /\ dev = << 33 >>
        /\ trace[n].pre.reg.I = 128
        /\ trace[n].pre.reg.SP = 65534
        /\ trace[n].post.reg.PC = 36864
        /\ trace[n].ticks = 19

\* The response in flight is the one to an NMI or to a mode-1 interrupt.
InVectoredResponse ==
    /\ pipeline # << >>
    /\ via = "NMI" \/ (via = "INT" /\ pre.interrupt_mode = 1)

(* C7: the NMI and the mode-1 response each push PC (high byte at SP-1, then
   low byte at SP-2, SP down by 2) and then set PC to 0x0066, resp. 0x0038;
   PC changes only at the last tick, after both writes; the NMI response
   takes 11 ticks and the mode-1 response 13. *)
C7_VectoredResponse ==
    /\ InVectoredResponse => reg.PC = pre.reg.PC
    /\ \A n \in NMIs :
          PushedPC(trace[n]) /\ trace[n].post.reg.PC = 102 /\ trace[n].ticks = 11
    /\ \A n \in INTs(1) :
          PushedPC(trace[n]) /\ trace[n].post.reg.PC = 56 /\ trace[n].ticks = 13

\* C7: an NMI response has completed.
C7_NMIDone == \E n \in NMIs : trace[n].post.reg.PC = 102 /\ trace[n].ticks = 11

\* C7: a mode-1 response has completed.
C7_Mode1Done == \E n \in INTs(1) : trace[n].post.reg.PC = 56 /\ trace[n].ticks = 13

\* C7: an NMI response is one tick from its end: the high byte is stacked, the
\* low byte and the jump are still to come, and PC is unchanged.
C7_BeforeLastTick ==
    /\ via = "NMI"
    /\ ticks = 10
    /\ Len(buslog) = 1
    /\ reg.PC = pre.reg.PC

(* C8: interrupt entry disables interrupts: after the NMI response IFF1 = 0
   and IFF2 is what it was before; after a maskable interrupt's response
   (mode 0, 1 or 2) IFF1 = IFF2 = 0. *)
C8_InterruptsDisabled ==
    /\ \A n \in NMIs :
          trace[n].post.iff1 = 0 /\ trace[n].post.iff2 = trace[n].pre.iff2
    /\ \A n \in INTs(0) \cup INTs(1) \cup INTs(2) :
          trace[n].post.iff1 = 0 /\ trace[n].post.iff2 = 0

\* C8: the response to an NMI that came with IFF1 = 1 has completed.
C8_NMITaken == \E n \in NMIs : trace[n].pre.iff1 = 1

\* interrupt_response as coded: no response touches IFF1 or IFF2.
IFFAsCoded ==
    \A n \in NMIs \cup INTs(0) \cup INTs(1) \cup INTs(2) :
        trace[n].post.iff1 = trace[n].pre.iff1 /\ trace[n].post.iff2 = trace[n].pre.iff2

\* ------------------------------------------------------------------ mode 0

\* The mode-0 response in flight is fetching: its head is an OCF or an OD.
Mode0Fetching ==
    /\ pipeline # << >>
    /\ via = "INT" /\ pre.interrupt_mode = 0
    /\ pipeline[1].kind \in {"OCF", "OD"}

\* What the instruction the device supplied has done, operand bytes in order.
Mode0Outcome(e) ==
    LET op == DevByte(1)
        nn == DevByte(2) + 256 * DevByte(3)
        same == e.post.reg.PC = e.pre.reg.PC
    IN /\ e.mri.inst[1] = op
       /\ \A k \in DOMAIN e.log : e.log[k].op = "write"
       /\ op = 0 => same
       /\ op = 62 => same /\ e.post.reg.AF \div 256 = DevByte(2)
       /\ op = 1 => same /\ e.post.reg.BC = nn
       /\ op = 33 => same /\ e.post.reg.HL = nn
       /\ op = 32 => e.post.reg.PC = (e.pre.reg.PC + TwosComplement(DevByte(2))) % 65536
       /\ op = 221 => same /\ e.mri.inst = << 221, DevByte(2) >>
       /\ op = 205 => PushedPC(e) /\ e.post.reg.PC = nn
       /\ op = 255 => PushedPC(e) /\ e.post.reg.PC = 56

(* C9: in mode 0 the response is a single OCF that takes its opcode from the
   device instead of memory; that OCF and every follow-on OD read their bytes
   from the device in order and leave PC unchanged, and once the device has
   no more bytes every further byte reads as 0x00, without an error.  The one
   error a response ends in is the decoder's, at bytes that are no opcode. *)
C9_Mode0 ==
    /\ (via = "INT" /\ pre.interrupt_mode = 0) =>
          \/ err = ""
          \/ err = "UnrecognisedInstruction" /\ ~InTable(errinst)
    /\ (via = "INT" /\ pre.interrupt_mode = 0 /\ ticks = 1) =>
          /\ Len(pipeline) = 1
          /\ pipeline[1].kind = "OCF" /\ pipeline[1].ds
    /\ Mode0Fetching => reg.PC = pre.reg.PC /\ buslog = << >>
    /\ \A n \in INTs(0) : Mode0Outcome(trace[n])

\* C9: LD BC,nn came from a device that ran out after the low byte: BC = 0x0034.
C9_Exhausted ==
    \E n \in INTs(0) :
        /\ dev = << 1, 52 >>
        /\ trace[n].post.reg.BC = 52
        /\ trace[n].post.reg.PC = trace[n].pre.reg.PC

\* C9: LD BC,nn came whole from the device: BC = 0x1234.
C9_InOrder ==
    \E n \in INTs(0) : dev = << 1, 52, 18 >> /\ trace[n].post.reg.BC = 4660

\* --------------------------------------------------------------- PUSH, POP

\* The opcodes of PUSH rr and of the POP rr that undoes it.
PushPopPairs ==
    { << << 197 >>, << 193 >> >>, << << 213 >>, << 209 >> >>,
      << << 229 >>, << 225 >> >>, << << 245 >>, << 241 >> >>,
      << << 221, 229 >>, << 221, 225 >> >>, << << 253, 229 >>, << 253, 225 >> >> }

\* The pipelines i, i+1 are a PUSH rr and the POP rr of the same pair.
PushThenPop(i) ==
    /\ i \in Fetched /\ i + 1 \in Fetched
    /\ << trace[i].mri.inst, trace[i + 1].mri.inst >> \in PushPopPairs

(* C10: for rr in {BC, DE, HL, AF, IX, IY}, PUSH rr followed by POP rr leaves
   every register and flag other than PC, and SP, with its starting value. *)
C10_PushPop ==
    \A i \in DOMAIN trace :
        PushThenPop(i) =>
            [trace[i + 1].post.reg EXCEPT !.PC = 0] = [trace[i].pre.reg EXCEPT !.PC = 0]

\* C10: PUSH IX ; POP IX has completed with the stack wrapping round address 0.
C10_PushPopDone ==
    \E i \in DOMAIN trace :
        /\ PushThenPop(i)
        /\ trace[i].mri.inst = << 221, 229 >>
        /\ trace[i].pre.reg.SP = 1
        /\ trace[i].post.reg.SP = 65535
        /\ trace[i + 1].post.reg.SP = 1

\* --------------------------------------------------------------- exchanges

\* The opcodes of EX AF,AF', EXX and EX DE,HL.
ExchangeOps == { << 8 >>, << 217 >>, << 235 >> }

\* The pipelines i, i+1 are the same exchange, run twice in a row.
ExchangedTwice(i) ==
    /\ i \in Fetched /\ i + 1 \in Fetched
    /\ trace[i].mri.inst \in ExchangeOps
    /\ trace[i + 1].mri.inst = trace[i].mri.inst

(* C11: EX AF,AF' twice, EXX twice, or EX DE,HL twice returns every register,
   main and shadow bank, PC excepted, to the value it had before the first. *)
C11_ExchangeTwice ==
    \A i \in DOMAIN trace :
        ExchangedTwice(i) =>
            [trace[i + 1].post.reg EXCEPT !.PC = 0] = [trace[i].pre.reg EXCEPT !.PC = 0]

\* C11: EX DE,HL has run twice; the first exchanged DE and HL, which differ.
C11_ExchangedTwice ==
    \E i \in DOMAIN trace :
        /\ ExchangedTwice(i)
        /\ trace[i].mri.inst = << 235 >>
        /\ trace[i].pre.reg.DE # trace[i].pre.reg.HL
        /\ trace[i].post.reg.DE = trace[i].pre.reg.HL
        /\ trace[i].post.reg.HL = trace[i].pre.reg.DE
        /\ trace[i + 1].post.reg.DE = trace[i].pre.reg.DE

\* C11: EX AF,AF' has run twice; the first brought in the shadow AF'.
C11_ShadowTwice ==
    \E i \in DOMAIN trace :
        /\ ExchangedTwice(i) /\ trace[i].mri.inst = << 8 >>
        /\ trace[i].post.reg.AF = trace[i].pre.reg.AF_
        /\ trace[i].post.reg.AF # trace[i].pre.reg.AF

\* ------------------------------------------------------- 8-bit arithmetic

\* The 8-bit operand the opcode's low three bits name, before the instruction.
Operand8(e, z) ==
    IF z = 6 THEN MemRead(e.pre, e.pre.reg.HL) ELSE getattr(e.pre.reg, Reg8[z + 1])

(* The reference flag byte of x + y + c (sub = FALSE) or x - y - c (sub = TRUE)
   on 8-bit x, y and carry-in c: S bit 7 of the result, Z result zero, H
   carry/borrow out of bit 3, P/V signed overflow, N, C carry/borrow out of
   bit 7 (keepC: the old carry, for INC and DEC), bits 5 and 3 of the result. *)
ReferenceF(sub, x, y, c, keepC, old) ==
    LET full == IF sub THEN x - y - c ELSE x + y + c
        res == full % 256
        half == IF sub THEN (x % 16) - (y % 16) - c ELSE (x % 16) + (y % 16) + c
        signed == IF sub THEN TwosComplement(x) - TwosComplement(y) - c
                  ELSE TwosComplement(x) + TwosComplement(y) + c
    IN (128 * BitOf(res, 7)) + (64 * Bool01(res = 0)) + (32 * BitOf(res, 5))
       + (16 * Bool01(half > 15 \/ half < 0)) + (8 * BitOf(res, 3))
       + (4 * Bool01(signed > 127 \/ signed < -128)) + (2 * Bool01(sub))
       + (IF keepC THEN old % 2 ELSE Bool01(full > 255 \/ full < 0))

\* The reference flag byte of the arithmetic instruction e ran.
ReferenceOf(e) ==
    LET b == Opcode(e)
        y == (b \div 8) % 8
        f == e.pre.reg.AF % 256
        a == e.pre.reg.AF \div 256
    IN IF b < 64
       THEN ReferenceF(b % 8 = 5, Operand8(e, y), 1, 0, TRUE, f)
       ELSE ReferenceF(y \in {2, 3, 7}, a, Operand8(e, b % 8),
                       IF y \in {1, 3} THEN f % 2 ELSE 0, FALSE, f)

(* C12: after every 8-bit arithmetic instruction (ADD, ADC, SUB, SBC, CP, INC,
   DEC), for all operand values and carry-in, F equals the reference flag
   calculation: S, Z, H, P/V as signed overflow, N, C and bits 5 and 3. *)
C12_ArithFlags ==
    \A i \in Fetched :
        Opcode(trace[i]) \in ArithOps =>
            trace[i].post.reg.AF % 256 = ReferenceOf(trace[i])

\* C12: ADD A,B with A = 0x3F, B = 0x01 has given A = 0x40 and H alone.
C12_AddExample ==
    \E i \in Fetched :
        /\ Opcode(trace[i]) = 128
        /\ trace[i].pre.reg.AF \div 256 = 63 /\ trace[i].pre.reg.BC \div 256 = 1
        /\ trace[i].post.reg.AF = (64 * 256) + 16
        /\ trace[i].ticks = 4

\* ADD A,B with A = 0x80, B = 0x01 has given A = 0x81 with P/V set.
AddNoOverflow ==
    \E i \in Fetched :
        /\ Opcode(trace[i]) = 128
        /\ trace[i].pre.reg.AF \div 256 = 128 /\ trace[i].pre.reg.BC \div 256 = 1
        /\ trace[i].post.reg.AF = (129 * 256) + 128 + 4

(* The flags as set_flags and force_flag compute them: all but P/V agree with
   the reference, but for H after CP, which no action of CP writes; P/V is
   set when the unmasked result is above 127 or below -128. *)
ArithFlagsAsCoded ==
    \A i \in Fetched :
        LET e == trace[i]
            b == Opcode(e)
            y == (b \div 8) % 8
            f == e.pre.reg.AF % 256
            F == e.post.reg.AF % 256
            R == ReferenceOf(e)
            x == IF b < 64 THEN Operand8(e, y) ELSE e.pre.reg.AF \div 256
            z == IF b < 64 THEN 1 ELSE Operand8(e, b % 8)
            c == IF b >= 64 /\ y \in {1, 3} THEN f % 2 ELSE 0
            D == IF b < 64 THEN (IF b % 8 = 5 THEN x - 1 ELSE x + 1)
                 ELSE IF y \in {2, 3, 7} THEN x - z - c ELSE x + z + c
        IN b \in ArithOps =>
              /\ \A n \in {0, 1, 3, 5, 6, 7} : BitOf(F, n) = BitOf(R, n)
              /\ BitOf(F, 4) = IF b \in 184..191 THEN BitOf(f, 4) ELSE BitOf(R, 4)
              /\ BitOf(F, 2) = Bool01(D > 127 \/ D < -128)

\* --------------------------------------------------------------------- DAA

\* The pipeline i is a DAA begun with a decimal A and H = N = C = 0.
DAAOnDecimal(i) ==
    /\ i \in Fetched
    /\ Opcode(trace[i]) = 39
    /\ trace[i].pre.reg.AF \div 256 \in BCD
    /\ BitAnd(trace[i].pre.reg.AF % 256, 19) = 0

(* C13: for every A whose nibbles are both <= 9, with H = N = C = 0, one DAA
   leaves A unchanged, and a second DAA on the result yields the same A and
   the same F as the first. *)
C13_DAAIdempotent ==
    \A i \in DOMAIN trace :
        DAAOnDecimal(i) =>
            /\ trace[i].post.reg.AF \div 256 = trace[i].pre.reg.AF \div 256
            /\ (i + 1 \in Fetched /\ Opcode(trace[i + 1]) = 39) =>
                  trace[i + 1].post.reg.AF = trace[i].post.reg.AF

\* C13: DAA has run twice on A = 0x99, begun with every flag but H, N, C set.
C13_DAATwice ==
    /\ DAAOnDecimal(1)
    /\ trace[1].pre.reg.AF = (153 * 256) + 236
    /\ Len(trace) >= 2 /\ Opcode(trace[2]) = 39
    /\ trace[2].post.reg.AF = (153 * 256) + 136

\* DAA has corrected A = 0x0A to 0x10.
DAACorrects ==
    /\ Len(trace) >= 1 /\ Opcode(trace[1]) = 39
    /\ trace[1].pre.reg.AF = 10 * 256
    /\ trace[1].post.reg.AF \div 256 = 16

\* --------------------------------------------------------------------- BIT

\* The pipeline i is a BIT n,r on a register: (0xCB, 0x40..0x7F) but BIT n,(HL).
BitOnRegister(i) ==
    /\ i \in Fetched
    /\ Len(trace[i].mri.inst) = 2
    /\ trace[i].mri.inst[1] = 203
    /\ trace[i].mri.inst[2] \in 64..127
    /\ trace[i].mri.inst[2] % 8 # 6

(* C14: for every n in 0..7, every 8-bit register r and every value of r,
   BIT n,r leaves r and all registers other than F and PC unchanged, and sets
   Z to 1 exactly when bit n of r is 0. *)
C14_BIT ==
    \A i \in DOMAIN trace :
        BitOnRegister(i) =>
            LET e == trace[i]
                n == (e.mri.inst[2] \div 8) % 8
                r == Reg8[(e.mri.inst[2] % 8) + 1]
            IN /\ [setattr(e.post.reg, "F", 0) EXCEPT !.PC = 0]
                    = [setattr(e.pre.reg, "F", 0) EXCEPT !.PC = 0]
               /\ getflag(e.post.reg, "Z") = 1 - BitOf(getattr(e.pre.reg, r), n)

\* C14: BIT 7,H on H = 0x80 has cleared Z, and F was all set before.
C14_BitSet ==
    \E i \in DOMAIN trace :
        /\ BitOnRegister(i)
        /\ trace[i].mri.inst = << 203, 124 >>
        /\ trace[i].pre.reg.HL \div 256 = 128
        /\ trace[i].pre.reg.AF % 256 = 255
        /\ getflag(trace[i].post.reg, "Z") = 0
        /\ trace[i].post.reg.HL = trace[i].pre.reg.HL

\* C14: BIT 0,A on A = 0xAA has set Z, and F was all clear before.
C14_BitClear ==
    \E i \in DOMAIN trace :
        /\ BitOnRegister(i)
        /\ trace[i].mri.inst = << 203, 71 >>
        /\ trace[i].pre.reg.AF = 170 * 256
        /\ getflag(trace[i].post.reg, "Z") = 1

\* ------------------------------------------------------------ DDCB, FDCB

\* The pipeline i is a DDCB or FDCB opcode.
IndexedCB(i) ==
    /\ i \in Fetched
    /\ Len(trace[i].mri.inst) = 3

(* C15: for every DDCB/FDCB opcode the four bytes are consumed in the order
   DD/FD, CB, displacement d, final opcode, and PC advances by 4; the address
   its MR reads, and its MW writes in the read-modify-write forms, is
   IX + signed(d) for DD and IY + signed(d) for FD, d an 8-bit two's
   complement value; the MW writes where the MR read. *)
C15_IndexedCB ==
    \A i \in DOMAIN trace :
        IndexedCB(i) =>
            LET e == trace[i]
                pc == e.pre.reg.PC
                base == IF e.mri.inst[1] = 221 THEN e.pre.reg.IX ELSE e.pre.reg.IY
                rmw == e.mri.inst[3] \notin 64..127
            IN /\ Len(e.log) = IF rmw THEN 6 ELSE 5
               /\ \A k \in 1..4 :
                     e.log[k].op = "read" /\ e.log[k].addr = (pc + k - 1) % 65536
               /\ e.mri.inst = << e.log[1].val, e.log[2].val, e.log[4].val >>
               /\ e.mri.inst[1] \in {221, 253} /\ e.mri.inst[2] = 203
               /\ e.post.reg.PC = (pc + 4) % 65536
               /\ e.log[5].op = "read"
               /\ e.log[5].addr = base + TwosComplement(e.log[3].val)
               /\ rmw => e.log[6].op = "write" /\ e.log[6].addr = e.log[5].addr

\* C15: SET 7,(IY-128) has read 0xA5 at IY-128 and written it back there.
C15_SetDone ==
    \E i \in DOMAIN trace :
        /\ IndexedCB(i)
        /\ trace[i].mri.inst = << 253, 203, 254 >>
        /\ trace[i].log[3].val = 128
        /\ trace[i].log[5] = [op |-> "read", addr |-> (2 * Block) - 128, val |-> 165]
        /\ trace[i].log[6] = [op |-> "write", addr |-> (2 * Block) - 128, val |-> 165]

\* C15: RLC (IX+5) has read 0xA5 at IX+5 and written 0x4B there.
C15_RotateDone ==
    \E i \in DOMAIN trace :
        /\ IndexedCB(i)
        /\ trace[i].mri.inst = << 221, 203, 6 >>
        /\ trace[i].log[5] = [op |-> "read", addr |-> Block + 5, val |-> 165]
        /\ trace[i].log[6] = [op |-> "write", addr |-> Block + 5, val |-> 75]

\* ------------------------------------------------- unrecognised instructions

(* The byte the OCF at the head of the pipeline fetched: the last byte read
   from memory or, with a data source, the device's next byte: the one after
   the prefix bytes and, behind a two-byte prefix, the displacement. *)
FetchedByte ==
    IF pipeline[1].ds
    THEN DevByte(Len(pipeline[1].prefix) + (IF Len(pipeline[1].prefix) = 2 THEN 2 ELSE 1))
    ELSE buslog[Len(buslog)].val

\* The OCF at the head of the pipeline has fetched its byte and not decoded it.
AboutToDecode ==
    /\ err = ""
    /\ pipeline # << >>
    /\ pipeline[1].kind = "OCF" /\ pipeline[1].pos = 2

(* C16: when OCF fetches an opcode (a single byte, or a prefix tuple) that has
   no entry in the decode table, an UnrecognisedInstruction error is raised
   whose payload is exactly the offending byte or tuple: the prefix bytes
   followed by the fetched byte. *)
C16_Unrecognised ==
    [][ /\ (AboutToDecode /\ ~InTable(mri.inst)) =>
              /\ err' = "UnrecognisedInstruction"
              /\ errinst' = pipeline[1].prefix \o << FetchedByte >>
        /\ (AboutToDecode /\ InTable(mri.inst)) => err' = ""
      ]_vars

\* C16: the four bytes DD CB 05 00 have raised the error carrying (0xDD, 0xCB, 0x00).
C16_TupleRaised ==
    /\ err = "UnrecognisedInstruction"
    /\ errinst = << 221, 203, 0 >>
    /\ buslog[Len(buslog)] = [op |-> "read", addr |-> Origin + 3, val |-> 0]

\* C16: the bytes ED 00 from the device of a mode-0 interrupt have raised the
\* error carrying (0xED, 0x00).
C16_DeviceRaised ==
    /\ err = "UnrecognisedInstruction"
    /\ errinst = << 237, 0 >>
    /\ via = "INT" /\ dev = << 237, 0 >>

\* C16: a device that supplied 0xED alone has raised the error carrying (0xED, 0x00).
C16_ExhaustedRaised ==
    /\ err = "UnrecognisedInstruction"
    /\ errinst = << 237, 0 >>
    /\ via = "INT" /\ dev = << 237 >>

(* The tick on which the OCF at the head of the pipeline raises changes
   nothing but the error: the registers, PC among them, memory, the interrupt
   flip-flops and the mode stay, the pipeline gains no state, nothing more is
   read, and most_recent_instruction is the opcode that has no entry. *)
DecodeError ==
    (AboutToDecode /\ err' = "UnrecognisedInstruction") =>
        /\ reg' = reg /\ membus' = membus /\ iobus' = iobus
        /\ << iff1', iff2', interrupt_mode' >> = << iff1, iff2, interrupt_mode >>
        /\ Len(pipeline') = Len(pipeline)
        /\ buslog' = buslog
        /\ mri' = mri /\ mri.inst = errinst'

(* Once the error is raised, the OCF that raised it is the whole pipeline and
   has left no mark since the pipeline began but what the prefixes before it
   did to PC: fetched from memory, PC still addresses the offending byte, the
   last one read; supplied by a device, PC is where the response found it.
   Every other register and all of memory are as the pipeline found them. *)
DecodeErrorOutcome ==
    err = "UnrecognisedInstruction" =>
        /\ Len(pipeline) = 1 /\ pipeline[1].kind = "OCF"
        /\ mri.inst = errinst
        /\ membus = pre.membus
        /\ reg = [pre.reg EXCEPT !.PC = IF via = "OCF" THEN buslog[Len(buslog)].addr ELSE @]
        /\ via = "OCF" =>
              /\ buslog[Len(buslog)].val = errinst[Len(errinst)]
              /\ reg.PC \in { (pre.reg.PC + k) % 65536 : k \in 0..3 }
              /\ Len(errinst) = 1 => reg.PC = pre.reg.PC

(* C35: state is unchanged on a decode error: when an OCF raises
   UnrecognisedInstruction, PC has not been incremented for the offending
   byte, no follow-on state has been appended to the pipeline, and no general
   register, flag, SP or memory cell has been modified by that OCF; only
   most_recent_instruction records the offending opcode. *)
C35_DecodeErrorLeavesState == [][DecodeError]_vars /\ []DecodeErrorOutcome

\* C35: ED FF after a NOP has raised the error with PC at the FF.
C35_RaisedAtByte ==
    /\ err = "UnrecognisedInstruction" /\ errinst = << 237, 255 >>
    /\ via = "OCF" /\ Len(trace) = 1
    /\ reg = [pre.reg EXCEPT !.PC = Origin + 2]
    /\ MemRead(cpu, reg.PC) = 255

\* ------------------------------------------------------------------ the stack

\* The state at the head of the pipeline in flight is of the given kind.
Running(kind) == err = "" /\ pipeline # << >> /\ pipeline[1].kind = kind

\* The bus transaction of this step, if there is one.
Transaction == IF buslog' = buslog THEN << >> ELSE << buslog'[Len(buslog')] >>

(* A tick of an SW: the first takes one off SP and leaves the bus alone; the
   later ones leave SP alone, and the one that uses the bus writes at SP. *)
SWStep ==
    IF pipeline[1].pos = 0
    THEN reg'.SP = (reg.SP - 1) % 65536 /\ Transaction = << >>
    ELSE /\ reg'.SP = reg.SP
         /\ \A t \in { Transaction[i] : i \in DOMAIN Transaction } :
               t.op = "write" /\ t.addr = reg.SP

(* A tick of an SR: the one that uses the bus reads at SP and leaves SP alone;
   SP changes only after it, at the last tick, and by one upwards. *)
SRStep ==
    /\ \A t \in { Transaction[i] : i \in DOMAIN Transaction } :
          t.op = "read" /\ t.addr = reg.SP /\ reg'.SP = reg.SP
    /\ reg'.SP # reg.SP =>
          /\ pipeline[1].pos >= 2
          /\ reg'.SP = (reg.SP + 1) % 65536
    /\ (pipeline' = << >> \/ pipeline'[1].kind # "SR" \/ pipeline'[1].pos = 0) =>
          reg'.SP = (reg.SP + 1) % 65536

\* The register pair a PUSH or POP opcode names.
StackPair(inst) ==
    IF inst[1] = 221 THEN "IX" ELSE IF inst[1] = 253 THEN "IY"
    ELSE Stk16[((inst[1] - 192) \div 16) + 1]

\* The last n bus transactions of the completed pipeline e.
LastOf(e, n) == SubSeq(e.log, Len(e.log) - n + 1, Len(e.log))

(* PUSH rr writes the high byte of rr at SP-1 and then the low byte at SP-2;
   POP rr reads the low byte at SP and then the high byte at SP+1 and leaves
   (high << 8) | low in rr. *)
PushPopOrder ==
    \A i \in Fetched :
        LET e == trace[i]
            inst == e.mri.inst
            sp == e.pre.reg.SP
        IN /\ inst \in { p[1] : p \in PushPopPairs } =>
                LastOf(e, 2) =
                    << [op |-> "write", addr |-> (sp - 1) % 65536,
                        val |-> e.pre.reg[StackPair(inst)] \div 256],
                       [op |-> "write", addr |-> (sp - 2) % 65536,
                        val |-> e.pre.reg[StackPair(inst)] % 256] >>
           /\ inst \in { p[2] : p \in PushPopPairs } =>
                /\ LastOf(e, 2)[1].op = "read" /\ LastOf(e, 2)[1].addr = sp
                /\ LastOf(e, 2)[2].op = "read"
                /\ LastOf(e, 2)[2].addr = (sp + 1) % 65536
                /\ e.post.reg[StackPair(inst)] =
                      (LastOf(e, 2)[2].val * 256) + LastOf(e, 2)[1].val
                /\ e.post.reg.SP = (sp + 2) % 65536

(* C18: an SW state first decrements SP by one and then writes its byte at the
   new SP; an SR state reads the byte at SP and then increments SP by one; so
   PUSH rr writes the high byte at SP-1 before the low byte at SP-2, and POP rr
   reads the low byte before the high byte and combines them as
   (high << 8) | low.  SP and the addresses are taken modulo 65536, as the
   register file keeps them. *)
C18_StackDiscipline ==
    /\ [][(Running("SW") => SWStep) /\ (Running("SR") => SRStep)]_vars
    /\ []PushPopOrder

\* C18: PUSH DE and POP DE have completed, the stack wrapping from address 0.
C18_PushedPopped ==
    \E i \in Fetched :
        /\ trace[i].mri.inst = << 213 >> /\ trace[i].pre.reg.SP = 0
        /\ trace[i].post.reg.SP = 65534
        /\ i + 1 \in Fetched /\ trace[i + 1].mri.inst = << 209 >>
        /\ trace[i + 1].post.reg.SP = 0

\* C18: an SW of an interrupt response is about to write the high byte of PC.
C18_ResponseStacking ==
    /\ Running("SW") /\ via \in {"NMI", "INT"}
    /\ pipeline[1].pos = 2 /\ pipeline[1].source = << "PCH" >>

\* ------------------------------------------------------------ PC and fetches

\* The byte an OCF or OD at its second tick takes in: from the device if it
\* has a data source (0 once that is exhausted), else from memory at a.
ByteIn(s, a) ==
    IF s.ds THEN (IF ds = << >> THEN 0 ELSE Head(ds))
    ELSE IF a \in DOMAIN membus THEN membus[a] ELSE 0

\* The running state is still the head of the pipeline after this tick.
StillRunning ==
    /\ pipeline' # << >>
    /\ pipeline'[1].kind = pipeline[1].kind
    /\ pipeline'[1].pos = pipeline[1].pos + 1

(* The ticks of an OCF or OD up to the one that moves PC: the first latches
   PC; the second reads the byte at the latched PC, or takes it from the data
   source and leaves the bus alone; the third of an OCF that decodes sets PC
   to the latched PC plus one, or leaves it with a data source. *)
FetchTick(s) ==
    CASE s.pos = 0 -> pipeline'[1].PC = reg.PC /\ reg'.PC = reg.PC
      [] s.pos = 1 ->
            /\ reg'.PC = reg.PC
            /\ Transaction = IF s.ds THEN << >>
                             ELSE << [op |-> "read", addr |-> s.PC,
                                      val |-> ByteIn(s, s.PC)] >>
            /\ ds' = IF s.ds /\ ds # << >> THEN Tail(ds) ELSE ds
      [] s.pos = 2 /\ s.kind = "OCF" ->
            err' = "" => reg'.PC = IF s.ds THEN reg.PC ELSE (s.PC + 1) % 65536
      [] OTHER -> TRUE

(* A tick of an OCF: at the second the instruction is the prefix and the byte
   taken in; after the third PC stays; and when the OCF of a prefix byte
   completes, what it leaves in the pipeline is an OCF carrying that prefix,
   with the data source of the first, yet to have its first tick. *)
OCFStep ==
    LET s == pipeline[1]
    IN /\ FetchTick(s)
       /\ s.pos = 1 => mri'.inst = s.prefix \o << ByteIn(s, s.PC) >>
       \* but for HALT, whose own action then steps PC back
       /\ (s.pos >= 3 /\ s.inst # << 118 >>) => reg'.PC = reg.PC
       /\ (s.pos >= 3 /\ ~StillRunning /\ s.inst \in {<< 203 >>, << 221 >>, << 237 >>, << 253 >>}) =>
             /\ Len(pipeline') = 1
             /\ pipeline'[1].kind = "OCF" /\ pipeline'[1].prefix = s.inst
             /\ pipeline'[1].pos = 0 /\ pipeline'[1].ds = s.ds

\* The opcodes JP nn and JP cc,nn, whose second OD jumps.
JumpOps == {195} \cup { 194 + (8 * cc) : cc \in 0..7 }

(* A tick of an OD: the third sets PC to the latched PC plus one, or leaves it
   with a data source; after that the action of the OD of JP nn may jump. *)
ODStep ==
    LET s == pipeline[1]
        after == IF s.ds THEN reg.PC ELSE (s.PC + 1) % 65536
    IN /\ FetchTick(s)
       /\ s.pos = 2 =>
             \/ reg'.PC = after
             \/ /\ mri.inst[1] \in JumpOps /\ HasKey(cpu, "value")
                /\ reg'.PC = high_after_low(s.D, kwargs(cpu)["value"])

\* The first tick of a pipeline that begins with an OCF latches PC.
FirstTick ==
    (pipeline = << >> /\ pipeline' # << >> /\ pipeline'[1].kind = "OCF") =>
        pipeline'[1].PC = reg.PC /\ reg'.PC = reg.PC

(* The bytes of a completed instruction of two bytes came from PC and PC + 1,
   in that order, and of one of three from PC, PC + 1 and PC + 3, when fetched
   from memory; the instruction run is the tuple of them. *)
TupleFetched ==
    \A i \in Fetched :
        LET e == trace[i]
            at(j) == (e.pre.reg.PC + (IF j = 3 THEN 3 ELSE j - 1)) % 65536
            nth(j) == IF j = 3 THEN 4 ELSE j
        IN Len(e.mri.inst) >= 2 =>
              \A j \in DOMAIN e.mri.inst :
                  e.log[nth(j)] = [op |-> "read", addr |-> at(j), val |-> e.mri.inst[j]]

(* C20: PC advances by exactly one per byte fetched from memory: each OCF and
   each OD without an injected data source sets PC to the PC it latched at its
   first tick plus one, and with an injected data source leaves PC unchanged;
   for a prefixed opcode the prefix byte's OCF increments PC and queues a
   nested OCF carrying the prefix, which reads the next byte at the
   incremented PC and decodes the tuple (prefix, byte).  PC is 16 bits wide. *)
C20_PCPerByte ==
    /\ [][/\ FirstTick
          /\ Running("OCF") => OCFStep
          /\ Running("OD") => ODStep]_vars
    /\ []TupleFetched

\* C20: the OCF of the prefix DD has left the nested OCF in the pipeline, PC
\* one on.
C20_PrefixQueued ==
    /\ Running("OCF") /\ pipeline[1].prefix = << 221 >> /\ pipeline[1].pos = 0
    /\ via = "OCF" /\ reg.PC = (pre.reg.PC + 1) % 65536

\* C20: an OD with a data source has completed, PC where it was.
C20_DeviceOperand ==
    \E i \in DOMAIN trace :
        /\ trace[i].via = "INT" /\ trace[i].mri.inst = << 62 >>
        /\ dev = << 62, 66 >>
        /\ trace[i].post.reg.AF \div 256 = 66
        /\ trace[i].post.reg.PC = trace[i].pre.reg.PC

\* C20: LD BC,nn fetched from memory: three reads, and PC three on.
C20_ThreeBytes ==
    \E i \in Fetched :
        /\ trace[i].mri.inst = << 1 >>
        /\ trace[i].post.reg.PC = (trace[i].pre.reg.PC + 3) % 65536
        /\ Len(trace[i].log) = 3

\* ------------------------------------------------------------- early_abort

(* The states queued behind the running state X at the tick now taken: the
   rest of the pipeline, and behind an OCF the states its opcode decodes to. *)
FollowOn ==
    LET s == pipeline[1]
    IN IF s.kind = "OCF" /\ s.pos >= 3 /\ InTable(s.inst)
       THEN Tail(pipeline)
            \o [i \in 1..Len(decode_instruction(s.inst).states) |->
                   set_data_source(decode_instruction(s.inst).states[i], s.ds)]
       ELSE Tail(pipeline)

(* A tick in which early_abort runs: X is in the pipeline from a tick before;
   the first early_abort pops every state behind X, none of which has had a
   tick, and the later ones of the same do_each find nothing to pop; X
   completes without an exception, and the pipeline is empty and recorded as
   completed. *)
\* The block instructions that store a byte: LDIR, INIR, LDDR, INDR.
BlockWriters == { << 237, x >> : x \in {176, 178, 184, 186} }

AbortStep ==
    aborted' # << >> =>
        /\ pipeline # << >>
        /\ aborted'[1] = FollowOn /\ FollowOn # << >>
        /\ \A i \in DOMAIN FollowOn : FollowOn[i].pos = 0
        /\ \A k \in 2..Len(aborted') : aborted'[k] = << >>
        /\ err' = ""
        /\ pipeline' = << >>
        /\ trace' = Append(trace, trace'[Len(trace')])
        /\ reg'.SP = reg.SP

(* Once early_abort has run the pipeline is over: what the popped states would
   have done has not happened.  SP is as the pipeline found it and PC is
   past the instruction's bytes; memory is as it was, but for the byte the
   own MW of LDIR, LDDR, INIR or INDR stores; and CPIR and CPDR, whose do_each
   has two of them, have run early_abort for each of BC = 0 and Z = 1 that
   holds. *)
AbortOutcome ==
    aborted # << >> =>
        /\ pipeline = << >>
        /\ reg.SP = pre.reg.SP
        /\ via = "OCF" =>
              reg.PC = (pre.reg.PC + decode_instruction(mri.inst).length) % 65536
        /\ mri.inst \notin BlockWriters => membus = pre.membus
        /\ \A i \in DOMAIN buslog :
              buslog[i].op = "write" => mri.inst \in BlockWriters /\ i = Len(buslog)
        /\ mri.inst \in { << 237, 177 >>, << 237, 185 >> } =>
              Len(aborted) = Bool01(reg.BC = 0) + getflag(reg, "Z")

(* C19: early_abort truncates the pipeline to just its head: after it runs
   inside state X, none of the follow-on states that were queued behind X ever
   executes a tick (no bus access, no SP or PC change from them), X itself
   still runs to completion including the remaining actions of its do_each,
   and the pipeline is empty once X completes. *)
C19_EarlyAbort == [][AbortStep]_vars /\ []AbortOutcome

\* C19: CALL Z,nn not taken: early_abort has popped the two SW states.
C19_CallAborted ==
    /\ mri.inst = << 204 >>
    /\ Len(aborted) = 1 /\ Len(aborted[1]) = 2
    /\ aborted[1][1].kind = "SW" /\ aborted[1][2].kind = "SW"

\* C19: CPIR has run both early_aborts of its do_each in one tick.
C19_AbortedTwice == mri.inst = << 237, 177 >> /\ Len(aborted) = 2

\* C19: DJNZ with B down to 0: early_abort ran before the last action of the
\* OD's do_each.
C19_DJNZAborted == mri.inst = << 16 >> /\ aborted # << >> /\ reg.BC \div 256 = 0

\* ------------------------------------------------------- ticks of each state

(* The running state is removed from the pipeline in the tick now taken: it
   returns, without an exception.  A state that stays has pos one higher; the
   state that follows one removed has had no tick, pos = 0. *)
Completes == err' = "" /\ ~StillRunning

\* The ticks the running state has had, the one now taken included: every
\* tick it does not return in takes its generator one yield on.
TicksTaken == pipeline[1].pos + 1

(* C21: an OCF consumes exactly 4 + extra + e ticks from its first tick to its
   removal from the pipeline, extra its construction parameter and e the
   extra clocks of the table entry decoded (5 ticks for an entry with e = 1,
   6 for the OCF of the mode-0 response, extra = 2, at an opcode with e = 0). *)
C21_OCFTicks ==
    [][(Running("OCF") /\ Completes) =>
          TicksTaken = 4 + pipeline[1].extra + decode_instruction(pipeline[1].inst).extra]_vars

\* C21: a NOP fetched from memory has completed, its OCF after 4 ticks.
C21_PlainOCF == \E i \in Fetched : trace[i].mri.inst = << 0 >> /\ trace[i].ticks = 4

\* The OCF of PUSH BC, an entry with one extra clock, has had three ticks; the
\* next is its last.
OCFOfPush ==
    /\ Running("OCF") /\ pipeline[1].inst = << 197 >>
    /\ pipeline[1].pos = 3 /\ ticks = 3

\* The OCF of the mode-0 response has completed on a NOP from the device
\* after 5 ticks.
Mode0OCFDone ==
    \E n \in INTs(0) : trace[n].mri.inst = << 0 >> /\ trace[n].ticks = 5

(* The OCF as coded: three yields and then extra + e - 1 more, so 4 ticks and
   one more for each of extra + e beyond the first. *)
OCFTicksAsCoded ==
    [][(Running("OCF") /\ Completes) =>
          LET n == pipeline[1].extra + decode_instruction(pipeline[1].inst).extra
          IN TicksTaken = 4 + (IF n > 1 THEN n - 1 ELSE 0)]_vars

(* The ticks a state other than an OCF is built to take: three for an operand
   fetch and a memory read, three and the extra of its construction for a
   memory write, a stack read and a stack write, four for a port read and a
   port write, and its ticks parameter for an internal operation. *)
StateTicks(s) ==
    CASE s.kind \in {"OD", "MR"} -> 3
      [] s.kind \in {"MW", "SR", "SW"} -> 3 + s.extra
      [] s.kind \in {"PR", "PW"} -> 4
      [] s.kind = "IO" -> s.ticks

(* C22: every state other than an OCF takes a fixed number of ticks from its
   first tick to its removal: OD 3, MR 3, MW 3 + extra, SR 3 + extra,
   SW 3 + extra, PR 4, PW 4 and IO(N) exactly N for every N >= 1, whatever
   the registers, the memory and the parameter bag hold. *)
C22_StateTicks ==
    [][(err = "" /\ pipeline # << >> /\ pipeline[1].kind # "OCF" /\ Completes) =>
          /\ pipeline[1].kind = "IO" => pipeline[1].ticks >= 1
          /\ TicksTaken = StateTicks(pipeline[1])]_vars

\* C22: EX (SP),HL has completed: OCF 4, SR 3, SR 3 + 1, SW 3, SW 3 + 2 ticks.
C22_ExchangeDone ==
    \E i \in Fetched : trace[i].mri.inst = << 227 >> /\ trace[i].ticks = 19

\* C22: an IN r,(C) has completed, the 4 ticks of its port read after the 8
\* of its two fetches.
C22_PortReadDone ==
    \E i \in Fetched : /\ Len(trace[i].mri.inst) = 2 /\ trace[i].mri.inst[1] = 237
                       /\ trace[i].mri.inst[2] \in { 64 + 8 * r : r \in 0..7 }
                       /\ trace[i].ticks = 12

\* C22: an OUT (n),A has completed, the 4 ticks of its port write after the 4
\* of its fetch and the 3 of its operand.
C22_PortWriteDone ==
    \E i \in Fetched : trace[i].mri.inst = << 211 >> /\ trace[i].ticks = 11

\* An IO of one tick is at its only tick.
IOOfOneTick == Running("IO") /\ pipeline[1].ticks = 1 /\ pipeline[1].pos = 0

\* An IO of seven ticks is at its last.
IOOfSevenTicks == Running("IO") /\ pipeline[1].ticks = 7 /\ pipeline[1].pos = 6

\* A memory write with two extra ticks is at its last.
MWOfFiveTicks == Running("MW") /\ pipeline[1].extra = 2 /\ pipeline[1].pos = 4

\* ------------------------------------------------------ from state to state

(* The pipeline and the bag the running state leaves when its generator has
   had the tick now taken: the states its OCF has decoded are in the pipeline,
   those its early_abort has popped are not. *)
LeftBy(m) == CHOOSE q \in { r.m.pipeline : r \in { run(m) } } : TRUE

(* The running state returns in this tick: it alone leaves the pipeline it
   has left, the states behind it stay as they are but for the bag of the
   first, which is the bag of the state that returned; that state has had no
   tick yet and the pipeline has had one more. *)
Cascade ==
    \E q \in { LeftBy(cpu) } :
       /\ Len(pipeline') = Len(q) - 1
       /\ \A i \in 2..Len(pipeline') : pipeline'[i] = q[i + 1]
       /\ pipeline' # << >> =>
             /\ pipeline'[1] = [q[2] EXCEPT !.kwargs = q[1].kwargs]
             /\ pipeline'[1].pos = 0
             /\ DOMAIN pipeline[1].kwargs \subseteq DOMAIN pipeline'[1].kwargs
             /\ ticks' = ticks + 1

(* What a memory read writes is there for a memory write: an MR that does not
   compound hands on the byte it has read from the bus, under 'value'; an MW
   with neither a value nor a source of its own takes the 'value' of its bag
   at its second tick and writes it at its third. *)
ReadThenWritten ==
    /\ (Running("MR") /\ pipeline[1].compound = None /\ Completes
         /\ pipeline' # << >>) =>
           /\ buslog[Len(buslog)].op = "read"
           /\ "value" \in DOMAIN pipeline'[1].kwargs
           /\ pipeline'[1].kwargs["value"] = buslog[Len(buslog)].val
    /\ (Running("MW") /\ pipeline[1].pos = 1 /\ err' = ""
         /\ pipeline[1].value.t = "none" /\ pipeline[1].source = None) =>
           pipeline'[1].value = Lit(pipeline[1].kwargs["value"])
    /\ (Running("MW") /\ pipeline[1].pos = 2 /\ err' = "") =>
           /\ Transaction # << >>
           /\ Transaction[1].op = "write"
           /\ Transaction[1].val = pipeline[1].value.v

(* C23: when the head state completes, that clock call removes exactly that
   state and its bag becomes the bag of the new head, so every key a state
   has written is there for the next (the byte an MR read is the byte the MW
   after it writes), and no tick passes between two states: every tick of
   the pipeline is a tick of its head, which stays or is removed. *)
C23_Cascade ==
    [][(err = "" /\ pipeline # << >>) =>
          /\ err' = "" => (StillRunning \/ Completes)
          /\ Completes => Cascade
          /\ ReadThenWritten]_vars

\* C23: an LDIR has copied a byte that is not zero: its MR handed the byte
\* on to its MW.
C23_ByteHandedOn ==
    /\ Running("MW") /\ pipeline[1].pos = 3 /\ mri.inst = << 237, 176 >>
    /\ Len(buslog) >= 4
    /\ buslog[3].op = "read" /\ buslog[4].op = "write"
    /\ buslog[4].val = buslog[3].val /\ buslog[3].val # 0

\* ---------------------------------------------------------- bus transactions

(* The tick, counted from 0, at which a state of each kind goes to the bus,
   and what it does there.  An IO does not go to the bus, nor does an OCF or
   OD that takes its byte from the interrupting device. *)
BusTick(s) ==
    CASE s.kind \in {"OCF", "OD", "MR", "SR", "PR"} -> 1
      [] s.kind \in {"MW", "PW"} -> 2
      [] s.kind = "SW" -> 2 + s.extra

BusOp(s) ==
    CASE s.kind \in {"OCF", "OD", "MR", "SR"} -> "read"
      [] s.kind \in {"MW", "SW"} -> "write"
      [] s.kind = "PR" -> "in"
      [] s.kind = "PW" -> "out"

UsesBus(s) == s.kind # "IO" /\ ~(s.ds /\ s.kind \in {"OCF", "OD"})

(* One tick of the head s of the pipeline with the log of the bus at log
   before it: at most one transaction is added, and one is added only at the
   bus tick of s, of the kind s makes; at that tick s makes it, unless an
   exception stops it there. *)
BusStep(s, log) ==
    /\ Len(buslog') <= Len(log) + 1
    /\ SubSeq(buslog', 1, Len(log)) = log
    /\ Len(buslog') = Len(log) + 1 =>
          /\ UsesBus(s) /\ s.pos = BusTick(s)
          /\ buslog'[Len(buslog')].op = BusOp(s)
    /\ (UsesBus(s) /\ s.pos = BusTick(s) /\ err' = "") =>
          Len(buslog') = Len(log) + 1
    /\ (UsesBus(s) /\ err' = "" /\ pipeline' = << >>) => s.pos > BusTick(s) - 1

(* C24: every bus transaction, on the memory bus or the port bus, is made by
   one machine state, the head of the pipeline at that tick, and a state
   makes at most one in its lifetime (it makes it at one tick of its own, and
   a state that uses the bus and returns has had that tick), so each tick
   adds at most one transaction and the log is in pipeline order.  The first
   tick of a pipeline, taken as it is enqueued, makes none. *)
C24_OneTransaction ==
    [][IF pipeline # << >> THEN err = "" => BusStep(pipeline[1], buslog)
       ELSE buslog' = << >>]_vars

\* C24: an OUT (C),r has completed with two reads of memory and one write to
\* the port, one for each of its three states.
C24_PortWritten ==
    \E i \in Fetched :
       /\ Len(trace[i].mri.inst) = 2 /\ trace[i].mri.inst[1] = 237
       /\ Len(trace[i].log) = 3
       /\ trace[i].log[1].op = "read" /\ trace[i].log[2].op = "read"
       /\ trace[i].log[3].op = "out"

\* A mode-2 response has completed: its OD took the vector from the device,
\* its two SW and two MR made the four transactions there are.
ResponseTransactions ==
    \E n \in INTs(2) :
       /\ Len(trace[n].log) = 4
       /\ trace[n].log[1].op = "write" /\ trace[n].log[2].op = "write"
       /\ trace[n].log[3].op = "read" /\ trace[n].log[4].op = "read"

\* ------------------------------------------------------------------ set_flags

\* set_flags has been called: the IO that carried it has returned.
Applied == flags # << >> /\ pipeline = << >> /\ err = ""

\* F before the call and after it.
FBefore == pre.reg.AF % 256
FAfter == reg.AF % 256

\* The number of 1 bits of the byte d.
Ones(d) == BitOf(d, 0) + BitOf(d, 1) + BitOf(d, 2) + BitOf(d, 3)
           + BitOf(d, 4) + BitOf(d, 5) + BitOf(d, 6) + BitOf(d, 7)

(* C25: set_flags(template, D), with d = D mod 256, computes each flag the
   template selects by its rule: 'S' sets S to bit 7 of d; 'Z' sets Z exactly
   when d = 0; '5' and '3' copy bits 5 and 3 of d; at the P/V place 'P' sets
   the flag exactly when d has an even number of 1 bits, 'V' exactly when
   D > 127 or D < -128, '*' copies IFF2; 'C' sets C exactly when D > 255 or
   D < 0. *)
C25_FlagRules ==
    Applied =>
       LET d == given % 256
       IN /\ flags[1] = "S" => BitOf(FAfter, 7) = BitOf(d, 7)
          /\ flags[2] = "Z" => (BitOf(FAfter, 6) = 1 <=> d = 0)
          /\ flags[3] = "5" => BitOf(FAfter, 5) = BitOf(d, 5)
          /\ flags[5] = "3" => BitOf(FAfter, 3) = BitOf(d, 3)
          /\ flags[6] = "P" => (BitOf(FAfter, 2) = 1 <=> Ones(d) % 2 = 0)
          /\ flags[6] = "V" => (BitOf(FAfter, 2) = 1 <=> (given > 127 \/ given < -128))
          /\ flags[6] = "*" => BitOf(FAfter, 2) = iff2
          /\ flags[8] = "C" => (BitOf(FAfter, 0) = 1 <=> (given > 255 \/ given < 0))

\* C25: 'P' has set the flag for a byte of four 1 bits that was given as a
\* value beyond a byte, and F had the flag clear.
C25_ParityOfLowByte ==
    /\ Applied /\ flags[6] = "P" /\ given = 341
    /\ BitOf(FBefore, 2) = 0 /\ BitOf(FAfter, 2) = 1

\* 'V' and 'C' have set their flags for a value below -128, 'Z' its flag for
\* a value of 256.
FlagsOfWideValues ==
    /\ Applied /\ FBefore = 0
    /\ \/ flags[6] = "V" /\ flags[8] = "C" /\ given = -129 /\ BitOf(FAfter, 2) = 1
          /\ BitOf(FAfter, 0) = 1
       \/ flags[2] = "Z" /\ given = 256 /\ BitOf(FAfter, 6) = 1

\* The bit of F that each place of the template stands for.
PlaceBit == << 7, 6, 5, 4, 3, 2, 1, 0 >>

\* The places named S, Z, 5, 3, N and C.
ForcedPlaces == {1, 2, 3, 5, 7, 8}

(* C26: a '-' at any of the eight places of the template leaves that bit of
   F as it was, and a '0' or '1' at the S, Z, 5, 3, N or C place forces that
   bit to 0 or 1 whatever the value is. *)
C26_PreserveAndForce ==
    Applied =>
       /\ \A i \in 1..8 :
             flags[i] = "-" => BitOf(FAfter, PlaceBit[i]) = BitOf(FBefore, PlaceBit[i])
       /\ \A i \in ForcedPlaces :
             /\ flags[i] = "0" => BitOf(FAfter, PlaceBit[i]) = 0
             /\ flags[i] = "1" => BitOf(FAfter, PlaceBit[i]) = 1

\* C26: a '1' at the Z place and a '0' at the C place have forced their bits
\* against what F held.
C26_Forced ==
    /\ Applied
    /\ \/ flags[2] = "1" /\ BitOf(FBefore, 6) = 0 /\ BitOf(FAfter, 6) = 1
       \/ flags[8] = "0" /\ BitOf(FBefore, 0) = 1 /\ BitOf(FAfter, 0) = 0

\* A '1' at the S place has left S clear.
SNotForced == Applied /\ flags[1] = "1" /\ BitOf(FAfter, 7) = 0

(* set_flags as coded: '-' preserves; the closing loop, for n in range(0,7),
   forces bits 0 to 6, so '0' and '1' force at every place but the first, the
   H and P/V places included, and at the S place they leave the bit alone. *)
ForcingAsCoded ==
    Applied =>
       /\ \A i \in 1..8 :
             flags[i] = "-" => BitOf(FAfter, PlaceBit[i]) = BitOf(FBefore, PlaceBit[i])
       /\ \A i \in 2..8 :
             /\ flags[i] = "0" => BitOf(FAfter, PlaceBit[i]) = 0
             /\ flags[i] = "1" => BitOf(FAfter, PlaceBit[i]) = 1
       /\ flags[1] \in {"0", "1"} => BitOf(FAfter, 7) = BitOf(FBefore, 7)

\* ------------------------------------------------------------- byte order

\* The word of the two operand bytes after the opcode of e, the first the low.
OperandWord(e) == Word(e.pre, e.pre.reg.PC + 1)

(* C27: 16-bit values are little-endian.  Two consecutive OD combine to
   (second << 8) | first (LD rr,nn loads the word at PC+1), and so do the two
   MR of the mode-2 response (PC is the word at the vector); MR and MW hand
   on the address plus one, so LD HL,(nn) reads L from nn and H from nn+1
   and LD (nn),HL writes L at nn and H at nn+1. *)
C27_LittleEndian ==
    /\ \A i \in Fetched :
          LET e == trace[i]
              b == Opcode(e)
              nn == OperandWord(e)
          IN /\ (b \in {1, 17, 33, 49}) =>
                    e.post.reg[Reg16[(b \div 16) + 1]] = nn
             /\ b = 42 =>
                    /\ Len(e.log) = 5
                    /\ e.log[4] = [op |-> "read", addr |-> nn, val |-> MemRead(e.pre, nn)]
                    /\ e.log[5] = [op |-> "read", addr |-> nn + 1,
                                   val |-> MemRead(e.pre, nn + 1)]
                    /\ e.post.reg.HL = MemRead(e.pre, nn) + (256 * MemRead(e.pre, nn + 1))
             /\ b = 34 =>
                    /\ Len(e.log) = 5
                    /\ e.log[4] = [op |-> "write", addr |-> nn, val |-> e.pre.reg.HL % 256]
                    /\ e.log[5] = [op |-> "write", addr |-> nn + 1,
                                   val |-> e.pre.reg.HL \div 256]
                    /\ MemRead(e.post, nn) = e.pre.reg.HL % 256
                    /\ MemRead(e.post, nn + 1) = e.pre.reg.HL \div 256
    /\ \A n \in INTs(2) :
          LET e == trace[n]
              v == e.log[3].addr
          IN /\ e.log[4].addr = v + 1
             /\ e.post.reg.PC = e.log[3].val + (256 * e.log[4].val)

\* C27: LD HL,(nn) has read, from the last byte of a page and the first of
\* the next, two bytes that differ, and HL holds them low byte first.
C27_WordRead ==
    \E i \in Fetched :
       /\ Opcode(trace[i]) = 42 /\ OperandWord(trace[i]) = 1279
       /\ trace[i].post.reg.HL = 128 + (256 * 34)

\* LD (nn),HL has written an HL of unlike halves.
WordWritten ==
    \E i \in Fetched :
       /\ Opcode(trace[i]) = 34 /\ trace[i].pre.reg.HL = 255
       /\ trace[i].log[4].val = 255 /\ trace[i].log[5].val = 0

\* ------------------------------------------------- memory states in need

\* The head of the pipeline is an MR or MW before its first tick with no
\* literal address, no indirect register and no 'address' in its bag.
NoAddress ==
    /\ err = "" /\ pipeline # << >>
    /\ pipeline[1].kind \in {"MR", "MW"} /\ pipeline[1].pos = 0
    /\ pipeline[1].address = None /\ pipeline[1].indirect = None
    /\ "address" \notin DOMAIN pipeline[1].kwargs

(* C28: an MR or MW with no literal address, no indirect register and no
   'address' key in its bag fails with an error at its first tick, before
   any bus access and with nothing changed; no pipeline of a table entry or
   of an interrupt response comes to that: the error is met only in a
   pipeline that neither a fetch nor an interrupt began. *)
C28_NoAddress ==
    /\ [][NoAddress =>
            /\ err' = "Exception"
            /\ buslog' = buslog /\ membus' = membus /\ iobus' = iobus
            /\ reg' = reg /\ pipeline' = pipeline
            /\ << iff1', iff2', interrupt_mode' >> = << iff1, iff2, interrupt_mode >>]_vars
    /\ [](NoAddress \/ err = "Exception" => via = "")

\* C28: an MW with a source and an extra tick, alone in the pipeline with
\* a value in its bag and no address anywhere, has failed at its first tick.
C28_FailedAtFirstTick ==
    /\ err = "Exception" /\ ticks = 1 /\ buslog = << >>
    /\ pipeline[1].kind = "MW" /\ pipeline[1].pos = 0
    /\ DOMAIN pipeline[1].kwargs = {"value"}

\* A bare MR has completed on the address in its bag.
BareRead ==
    /\ trace # << >> /\ trace[1].via = ""
    /\ trace[1].log = << [op |-> "read", addr |-> 2 * Block, val |-> 0] >>

\* LD (IX+d),r and LD (nn),SP have completed: their MW took the address
\* from the bag.
AddressFromBag ==
    \E i \in Fetched :
       \/ trace[i].mri.inst \in { << 221, x >> : x \in 112..117 }
       \/ trace[i].mri.inst = << 237, 115 >>

\* -------------------------------------------------------------- addresses

(* C32: every address passed to membus read or write by any machine state
   is an unsigned 16-bit value, the indexed accesses (IX+d), (IY+d) with a
   negative or wrapping displacement and the second byte of a 16-bit access
   at nn = 0xFFFF among them. *)
C32_AddressIsU16 == \A i \in DOMAIN buslog : buslog[i].addr \in 0..65535

\* C32: LD A,(IX+d) with IX = 0x0400 and d = 0xFE has read 0x03FE.
C32_BelowIndex ==
    \E i \in Fetched :
        /\ trace[i].mri.inst = << 221, 126 >> /\ trace[i].pre.reg.IX = Block
        /\ trace[i].log[4] = [op |-> "read", addr |-> Block - 2, val |-> 15]

\* LD HL,(0xFFFF) has read its second byte at 0x10000, where there is no
\* memory, and not the 0x22 at 0x0000.
PastTheTop ==
    \E i \in Fetched :
        /\ trace[i].mri.inst = << 42 >>
        /\ MemRead(trace[i].pre, 0) = 34
        /\ trace[i].log[4] = [op |-> "read", addr |-> 65535, val |-> 17]
        /\ trace[i].log[5] = [op |-> "read", addr |-> 65536, val |-> 0]
        /\ trace[i].post.reg.HL = 17

\* LD (IY+d),A with IY = 0 and d = 0xFE has written at -2.
BelowZero ==
    \E i \in Fetched :
        /\ trace[i].mri.inst = << 253, 119 >>
        /\ trace[i].log[4] = [op |-> "write", addr |-> 0 - 2, val |-> 18]

\* The instructions whose MR and MW take an address worked out from operand
\* bytes: the word loads and those on (IX+d), (IY+d).
ComputedAddress(inst) ==
    \/ inst \in WordOps
    \/ Len(inst) = 2 /\ inst[1] \in {221, 253} /\ inst[2] \in IndexedSecond
    \/ Len(inst) = 3

(* As coded: an address outside 0..65535 is one past the top from the second
   byte of a word at 0xFFFF, or IX + d, IY + d (and the one after) as
   add_register leaves it; the addresses taken from PC, SP and the register
   pairs are in range. *)
AddressesAsCoded ==
    \A i \in DOMAIN buslog :
        buslog[i].addr \notin 0..65535 =>
            /\ via = "OCF" /\ ComputedAddress(mri.inst)
            /\ buslog[i].addr \in (0 - 128)..(65535 + 128)

\* ----------------------------------------------------------- bytes written

\* The transactions of the bus log that write: to memory, to a port.
Writes == { i \in DOMAIN buslog : buslog[i].op \in {"write", "out"} }

(* C33: every value passed to membus write, by MW or SW, and to iobus write
   is an unsigned 8-bit value, for every instruction of the table and every
   register and memory content, RRD and RLD among them. *)
C33_ValueIsU8 == \A i \in Writes : buslog[i].val \in 0..255

\* C33: RRD on A = 0x0F and the byte 0xFF has written 0xFF.
C33_DigitsIn ==
    \E i \in Fetched :
        /\ trace[i].mri.inst = << 237, 103 >>
        /\ trace[i].pre.reg.AF = 15 * 256
        /\ trace[i].log[4] = [op |-> "write", addr |-> Block, val |-> 255]

\* RRD on A = 0x12 and the byte 0x34 has written 0x123, and RLD 0x342.
DigitsOut ==
    \E i \in Fetched :
        /\ trace[i].pre.reg.AF = 18 * 256 /\ MemRead(trace[i].pre, Block) = 52
        /\ \/ /\ trace[i].mri.inst = << 237, 103 >>
              /\ trace[i].log[4] = [op |-> "write", addr |-> Block, val |-> 291]
           \/ /\ trace[i].mri.inst = << 237, 111 >>
              /\ trace[i].log[4] = [op |-> "write", addr |-> Block, val |-> 834]

(* As coded: the bytes written are in range but for those of RRD, up to
   0xFFF with the whole of A above the digit kept, and of RLD, up to 0xFFF
   with the high digit of (HL) above the byte. *)
ValuesAsCoded ==
    \A i \in Writes :
        buslog[i].val \notin 0..255 =>
            /\ via = "OCF" /\ mri.inst \in { << 237, 103 >>, << 237, 111 >> }
            /\ buslog[i].val \in 256..4095

\* ---------------------------------------------------------- termination

\* The OCF states of the pipeline in flight.
OCFsQueued == { i \in DOMAIN pipeline : pipeline[i].kind = "OCF" }

(* The OCF states one instruction runs carry the bytes of the OCFs before
   them: none, one, or two.  An instruction has at most three opcode bytes,
   one per OCF, and no two of its OCFs are in the pipeline together. *)
ChainBound ==
    /\ \A i \in OCFsQueued : Len(pipeline[i].prefix) <= 2
    /\ Cardinality(OCFsQueued) <= 1
    /\ mri.tag = "op" => Len(mri.inst) \in 1..3

\* A pipeline is in flight and nothing has been raised.
InFlight == pipeline # << >> /\ err = ""

(* C37: every instruction completes: from any reachable state whose pipeline
   is not empty and is made of states of the decode table or of
   interrupt_response, repeated clock ticks eventually reach an empty pipeline
   unless an UnrecognisedInstruction error is raised; prefix chains never nest
   more than three OCF states for one instruction. *)
C37_Completes ==
    /\ InFlight ~> (pipeline = << >> \/ err = "UnrecognisedInstruction")
    /\ []ChainBound

\* C37: the third OCF of RLC (IX+5), carrying DD CB, is at the head of the
\* pipeline, its opcode read.
C37_ThirdOCF ==
    /\ InFlight /\ pipeline[1].kind = "OCF" /\ pipeline[1].prefix = << 221, 203 >>
    /\ mri.inst = << 221, 203, 6 >>

\* ------------------------------------------------------ conditional calls

\* The completed CALL cc,nn fetched from memory whose condition did not hold.
CallsNotTaken ==
    { i \in Fetched :
        /\ Opcode(trace[i]) >= 192 /\ Opcode(trace[i]) % 8 = 4
        /\ ~CondHolds((Opcode(trace[i]) - 196) \div 8, trace[i].pre.reg.AF % 256) }

(* C36: a conditional CALL cc,nn at PC = p whose condition is false performs
   no memory write and leaves SP and all registers other than PC unchanged;
   it still consumes both operand bytes, ending with PC = p+3 and an empty
   pipeline after 10 ticks. *)
C36_CallNotTaken ==
    \A i \in CallsNotTaken :
        LET e == trace[i]
            p == e.pre.reg.PC
        IN /\ e.ticks = 10
           /\ e.post.reg = [e.pre.reg EXCEPT !.PC = (p + 3) % 65536]
           /\ e.post.membus = e.pre.membus
           /\ \A j \in DOMAIN e.log : e.log[j].op = "read"
           /\ [j \in DOMAIN e.log |-> e.log[j].addr] = << p, p + 1, p + 2 >>

\* C36: CALL PO,nn with P/V set has ended at p+3 with the stack as it was.
C36_CallPONotTaken ==
    \E i \in CallsNotTaken :
        /\ trace[i].mri.inst = << 228 >>
        /\ trace[i].pre.reg.AF % 256 = 255
        /\ trace[i].ticks = 10
        /\ trace[i].post.reg.PC = Origin + 3 /\ trace[i].post.reg.SP = Regs0.SP

\* The CALL cc,nn whose condition held went to nn over the pushed p+3, in the
\* 16 ticks the code gives CALL nn.
CallsTaken ==
    \A i \in Fetched :
        (/\ Opcode(trace[i]) >= 192 /\ Opcode(trace[i]) % 8 = 4
         /\ CondHolds((Opcode(trace[i]) - 196) \div 8, trace[i].pre.reg.AF % 256)) =>
            /\ trace[i].ticks = 16
            /\ trace[i].post.reg.PC = Target
            /\ trace[i].post.reg.SP = (trace[i].pre.reg.SP - 2) % 65536

\* ----------------------------------------------------- block instructions

\* The completed runs of block instructions fetched from memory.
Blocks == { i \in Fetched : trace[i].mri.inst \in BlockOps }

\* The block instruction run as e has more to do: BC, or B for those on a
\* port, is not 0 yet, and the searching ones have found no match.
ToRepeat(e) ==
    LET x == e.mri.inst[2]
    IN IF x % 4 >= 2 THEN e.post.reg.BC \div 256 # 0
       ELSE /\ e.post.reg.BC # 0
            /\ x % 4 = 1 => getflag(e.post.reg, "Z") = 0

(* The registers after e hold one iteration more than before it and no part
   of another: HL one on, or one back for the decrementing four; DE with it
   for the two that copy; BC one less, or B one less for those on a port;
   SP and the index registers as they were. *)
OneIteration(e) ==
    LET x == e.mri.inst[2]
        step == IF x >= 184 THEN 0 - 1 ELSE 1
        r == e.pre.reg
    IN /\ e.post.reg.HL = (r.HL + step) % 65536
       /\ e.post.reg.DE = IF x % 4 = 0 THEN (r.DE + step) % 65536 ELSE r.DE
       /\ e.post.reg.BC = IF x % 4 >= 2
                          THEN ((((r.BC \div 256) - 1) % 256) * 256) + (r.BC % 256)
                          ELSE (r.BC - 1) % 65536
       /\ << e.post.reg.SP, e.post.reg.IX, e.post.reg.IY >> = << r.SP, r.IX, r.IY >>

(* The pipeline after the block instruction run as trace[i] is the response
   to an NMI or to a maskable interrupt in mode 1 or 2: it begins where the
   run ended and pushes the address of the instruction. *)
Interrupted(i) ==
    /\ i + 1 \in NMIs \cup INTs(1) \cup INTs(2)
    /\ trace[i + 1].pre.reg = trace[i].post.reg

(* The handler returns at once and the block instruction is fetched again:
   from where it was, on the registers the run before the interrupt left. *)
Resumed(i) ==
    (/\ i + 3 \in Fetched
     /\ i + 2 \in Fetched /\ trace[i + 2].mri.inst \in { << 201 >>, << 237, 69 >> }) =>
        /\ trace[i + 3].mri.inst = trace[i].mri.inst
        /\ trace[i + 3].pre.reg = trace[i].post.reg

(* C34: the repeating block instructions can be interrupted between
   iterations: whenever the pipeline becomes empty while the instruction
   still has to repeat, PC is the address of its ED prefix byte and HL, DE,
   BC (or B) reflect only whole iterations, so that an interrupt response
   injected there pushes the address of the block instruction itself and a
   later return resumes it. *)
C34_Interruptible ==
    \A i \in Blocks :
        LET e == trace[i]
        IN /\ OneIteration(e)
           /\ e.post.reg.PC = IF ToRepeat(e) THEN e.pre.reg.PC
                               ELSE (e.pre.reg.PC + 2) % 65536
           /\ (ToRepeat(e) /\ i + 1 \in DOMAIN trace /\ Interrupted(i)) =>
                  /\ trace[i + 1].pre.reg.PC = e.pre.reg.PC
                  /\ PushedPC(trace[i + 1])
                  /\ Resumed(i)

\* C34: INDR, interrupted by an NMI after its first byte, has been resumed
\* after the RETN and is done.
C34_INDRResumed ==
    /\ Len(trace) = 4 /\ Blocks = {1, 4} /\ 2 \in NMIs
    /\ trace[1].mri.inst = << 237, 186 >> /\ trace[3].mri.inst = << 237, 69 >>
    /\ trace[4].pre.reg.PC = Origin /\ trace[4].post.reg.PC = Origin + 2
    /\ trace[4].post.reg.BC = 7 /\ trace[4].post.reg.HL = Block - 1

\* LDDR, interrupted in mode 1 after its first byte, has been resumed after
\* the RET and is done.
LDDRResumed ==
    /\ Len(trace) = 4 /\ Blocks = {1, 4} /\ 2 \in INTs(1)
    /\ trace[1].mri.inst = << 237, 184 >> /\ trace[3].mri.inst = << 201 >>
    /\ trace[4].post.reg.PC = Origin + 2 /\ trace[4].post.reg.BC = 0

\* ------------------------------------------------------------------- HALT

\* The completed HALTs fetched from memory.
Halts == { i \in Fetched : trace[i].mri.inst = << 118 >> }

(* The tick that ends a HALT fetched from memory at p is its fourth; it
   leaves PC at p while the latch is clear and at p + 1 once it is set, and
   every other register, memory and the IFFs as they were when the HALT
   began. *)
HaltStep ==
    (Running("OCF") /\ via = "OCF" /\ mri.inst = << 118 >> /\ Completes) =>
        /\ TicksTaken = 4 /\ ticks' = 4
        /\ pipeline' = << >>
        /\ reg' = [pre.reg EXCEPT !.PC = IF int THEN (pre.reg.PC + 1) % 65536
                                        ELSE pre.reg.PC]
        /\ membus' = pre.membus
        /\ << iff1', iff2', interrupt_mode' >> = << iff1, iff2, interrupt_mode >>

\* The pipeline fetched next after a HALT that left PC where it was is the
\* same HALT.
HaltRepeats ==
    \A i \in Halts :
        (trace[i].post.reg.PC = trace[i].pre.reg.PC /\ i + 1 \in Fetched) =>
            /\ trace[i + 1].mri.inst = << 118 >>
            /\ trace[i + 1].pre.reg.PC = trace[i].pre.reg.PC

(* C31: HALT at address p repeats until an interrupt is pending: each
   execution takes 4 ticks, and while the cpu's int latch is false PC is p
   again when the pipeline empties, so that the next fetch executes the HALT
   again, whereas once the latch is true the execution ends with PC = p + 1;
   HALT changes no other register. *)
C31_Halt == [][HaltStep]_vars /\ []HaltRepeats

\* C31: the HALT at 0xFFFF has run twice and then, the latch set, once more,
\* leaving PC at 0x0000.
C31_HaltLeft ==
    /\ Len(trace) = 3 /\ Halts = {1, 2, 3}
    /\ trace[1].pre.reg.PC = 65535
    /\ trace[2].post.reg.PC = 65535
    /\ trace[3].post.reg.PC = 0

\* The response to an interrupt latched during a HALT has pushed the address
\* after the HALT.
HaltInterrupted ==
    /\ Len(trace) >= 2 /\ 1 \in Halts /\ trace[2].via = "INT"
    /\ trace[2].pre.reg.PC = Origin + 1
    /\ MemRead(trace[2].post, 65532) = (Origin + 1) % 256

\* ------------------------------------------------------ IFF1 and IFF2

\* What the first pipeline found: the CPU as it was constructed and set up.
AtStart == IF trace = << >> THEN pre ELSE trace[1].pre

(* C38: IFF1 and IFF2 never diverge inside the core: if IFF1 = IFF2
   initially, then after any sequence of instructions (DI, EI, RETN and all
   others) and interrupt-response pipelines (NMI and modes 0, 1, 2) IFF1 =
   IFF2 still holds, at every tick. *)
C38_IFFsAgree == AtStart.iff1 = AtStart.iff2 => iff1 = iff2

\* C38: EI has set both flip-flops and the response to an interrupt that
\* followed has left them set.
C38_EnabledAndInterrupted ==
    /\ AtStart.iff1 = 0 /\ AtStart.iff2 = 0
    /\ \E i \in Fetched : trace[i].mri.inst = << 251 >> /\ i + 1 \in DOMAIN trace
                            /\ trace[i + 1].via \in {"NMI", "INT"}
    /\ iff1 = 1 /\ iff2 = 1

\* DI has cleared both flip-flops.
Disabled ==
    /\ AtStart.iff1 = 1 /\ AtStart.iff2 = 1
    /\ \E i \in Fetched : trace[i].mri.inst = << 243 >>
    /\ iff1 = 0 /\ iff2 = 0

\* RETN has run after the response to an NMI and the flip-flops agree.
ReturnedFromNMI ==
    /\ AtStart.iff1 = AtStart.iff2
    /\ \E i \in NMIs : i + 1 \in Fetched /\ trace[i + 1].mri.inst = << 237, 69 >>
    /\ iff1 = iff2

\* The flip-flops only ever hold 0 or 1, and no step but one of DI, EI, RETN
\* and RETI changes either.
IFFWriters ==
    [][ << iff1', iff2' >> # << iff1, iff2 >> =>
            /\ mri'.inst \in { << 243 >>, << 251 >>, << 237, 69 >>, << 237, 77 >> }
            /\ iff1' = iff2'
      ]_vars

\* ------------------------------------------------------- RET, RETN, RETI

\* The completed RET, RETN and RETI fetched from memory.
Returns ==
    { i \in Fetched : trace[i].mri.inst \in { << 201 >>, << 237, 69 >>, << 237, 77 >> } }

(* The completed pipeline e has popped the return address: after the bytes
   of the opcode it has read the low byte at SP and the high byte at SP + 1
   and nothing else, SP is up by 2 and PC is the word read; memory and the
   other registers are as they were. *)
Popped(e) ==
    LET k == Len(e.mri.inst)
        s == e.pre.reg.SP
        lo == MemRead(e.pre, s)
        hi == MemRead(e.pre, (s + 1) % 65536)
    IN /\ Len(e.log) = k + 2
       /\ e.log[k + 1] = [op |-> "read", addr |-> s, val |-> lo]
       /\ e.log[k + 2] = [op |-> "read", addr |-> (s + 1) % 65536, val |-> hi]
       /\ e.post.reg = [e.pre.reg EXCEPT !.SP = (s + 2) % 65536,
                                         !.PC = (hi * 256) + lo]
       /\ e.post.membus = e.pre.membus

(* C30: RETN pops the return address exactly like RET (low byte at SP, high
   byte at SP + 1, SP increased by 2, PC set to the popped word) and sets
   IFF1 to the value of IFF2, leaving IFF2 unchanged; RETI and RET change
   neither IFF1 nor IFF2. *)
C30_Returns ==
    \A i \in Returns :
        LET e == trace[i]
        IN /\ Popped(e)
           /\ e.post.iff2 = e.pre.iff2
           /\ e.post.iff1 = IF e.mri.inst = << 237, 69 >> THEN e.pre.iff2 ELSE e.pre.iff1
           /\ e.post.interrupt_mode = e.pre.interrupt_mode

\* C30: RETN that came with IFF1 = 0 and IFF2 = 1 has set IFF1 and jumped to
\* the address on the stack.
C30_Restored ==
    \E i \in Returns :
        /\ trace[i].mri.inst = << 237, 69 >>
        /\ trace[i].pre.iff1 = 0 /\ trace[i].pre.iff2 = 1
        /\ trace[i].post.iff1 = 1 /\ trace[i].post.reg.PC = Target

\* RETI that came with IFF1 = 0 and IFF2 = 1 has left them, with the stack
\* at the top of memory.
NotRestored ==
    \E i \in Returns :
        /\ trace[i].mri.inst = << 237, 77 >> /\ trace[i].pre.reg.SP = 65535
        /\ trace[i].pre.iff1 = 0 /\ trace[i].pre.iff2 = 1
        /\ trace[i].post.iff1 = 0 /\ trace[i].post.iff2 = 1

\* ------------------------------------------------------------ byte lengths

(* The bytes of the instruction stream the completed pipeline e took: its
   OCF and OD come before its other states, so they are the transactions at
   the head of its bus log that read PC, PC + 1, ... in a row. *)
StreamBytes(e) ==
    LET at(j) == /\ e.log[j].op = "read"
                 /\ e.log[j].addr = (e.pre.reg.PC + j - 1) % 65536
    IN CHOOSE n \in 0..Len(e.log) :
          /\ \A j \in 1..n : at(j)
          /\ n < Len(e.log) => ~at(n + 1)

\* The table gives instruction inst a length, and not 0: its entry has the
\* fifth member.
HasLength(inst) ==
    /\ Len(MnemonicAndLength(inst)) = 2
    /\ MnemonicAndLength(inst)[2] # 0

(* C29: for every entry of the table with a non-zero byte length, the
   length is the number of bytes of the instruction stream the instruction
   takes when it is run, the count of its OCF and OD fetches. *)
C29_LengthIsBytes ==
    \A i \in Fetched :
        HasLength(trace[i].mri.inst) =>
            decode_instruction(trace[i].mri.inst).length = StreamBytes(trace[i])

\* C29: LD (IY+d),n has completed, of the length 4 and on four bytes.
C29_FourBytes ==
    \E i \in Fetched :
        /\ trace[i].mri.inst = << 253, 54 >>
        /\ decode_instruction(trace[i].mri.inst).length = 4
        /\ StreamBytes(trace[i]) = 4

\* DAA has completed on the one byte it has: the table gives it two.
DAAOfOneByte ==
    \E i \in Fetched :
        /\ trace[i].mri.inst = << 39 >>
        /\ decode_instruction(trace[i].mri.inst).length = 2
        /\ StreamBytes(trace[i]) = 1
        /\ trace[i].post.reg.PC = trace[i].pre.reg.PC + 1

\* What the table's length is short of the bytes taken by.
LengthShortBy(inst) ==
    CASE inst = << 39 >> -> 0 - 1
      [] inst = << 237, 115 >> -> 2
      [] inst = << 221, 54 >> -> 1
      [] OTHER -> 0

(* As coded: the length is the number of bytes taken but for DAA (2 for 1),
   LD (nn),SP (2 for 4) and LD (IX+d),n (3 for 4); it is the length the
   disassembler finds in the entry. *)
LengthAsCoded ==
    \A i \in Fetched :
        HasLength(trace[i].mri.inst) =>
            /\ decode_instruction(trace[i].mri.inst).length
                  = MnemonicAndLength(trace[i].mri.inst)[2]
            /\ StreamBytes(trace[i]) =
                  decode_instruction(trace[i].mri.inst).length
                  + LengthShortBy(trace[i].mri.inst)

\* ------------------------------------------------------------ disassembler

RECURSIVE ConsumedBy(_)
\* The bytes the first k pairs of ret stand for.
ConsumedBy(k) == IF k = 0 THEN 0 ELSE ret[k].length + ConsumedBy(k - 1)

(* The k-th pair of ret is a "???" of the length the bytes it stands for call
   for: 1 for an unknown unprefixed byte, 2 for a CB/DD/ED/FD lead whose second
   byte is unknown or missing, 4 for a DDCB/FDCB lead whose fourth byte is
   unknown or missing. *)
UnknownLength(k) ==
    LET at == ConsumedBy(k - 1) + 1
        left == Len(_instructions) - at + 1
        b(j) == _instructions[at + j - 1]
    IN \/ ret[k].length = 1 /\ ~InTable(<< b(1) >>)
       \/ /\ ret[k].length = 2
          /\ b(1) \in {203, 221, 237, 253}
          /\ left < 2 \/ ~InTable(<< b(1), b(2) >>)
       \/ /\ ret[k].length = 4
          /\ b(1) \in {221, 253} /\ left >= 2 /\ b(2) = 203
          /\ left < 4 \/ ~InTable(<< b(1), b(2), b(4) >>)

(* C17: disassemble_instructions never raises: for every finite sequence of
   bytes it returns a list of (mnemonic, length) pairs, with "???" and the
   length 1 for an unknown unprefixed byte, 2 for a CB/DD/ED/FD lead whose
   second byte is unknown or missing, and 4 for a DDCB/FDCB lead whose fourth
   byte is unknown or missing. *)
C17_NeverRaises ==
    /\ err = ""
    /\ \A k \in DOMAIN ret : ret[k].code = "???" => UnknownLength(k)

\* C17: the bytes DD 00 FD CB have come out as "???" of length 2 and "???" of
\* length 4.
C17_UnknownsEmitted ==
    /\ _instructions = << 221, 0, 253, 203 >>
    /\ instructions = << >>
    /\ ret = << [code |-> "???", op |-> << >>, length |-> 2],
                [code |-> "???", op |-> << >>, length |-> 4] >>

\* The disassembler has raised at LD L,n, after a NOP.
RaisedAtLDL ==
    /\ _instructions = << 0, 46, 1 >>
    /\ err = "ValueError"
    /\ instructions = << 46, 1 >>

(* The disassembler as coded: it raises exactly at the entries that have no
   length, and every "???" has the length the claim gives. *)
DisassemblerAsCoded ==
    /\ err \in {"", "ValueError"}
    /\ err = "ValueError" =>
          \/ instructions[1] \in {46, 150}
          \/ /\ Len(instructions) > 1 /\ instructions[1] = 221
             /\ instructions[2] \in {70, 115, 203, 227}
    /\ \A k \in DOMAIN ret : ret[k].code = "???" => UnknownLength(k)

====
